---- MODULE Spec2Model ----
(***************************************************************************)
(* LeafDB: single-file, memory-mapped, copy-on-write B+ tree store with    *)
(* two meta pages, single-writer / multi-reader transactions and a         *)
(* freelist reclaimed under MVCC.                                          *)
(*                                                                         *)
(* Pages are modelled as records carrying the decoded fields of the page   *)
(* (kind is the first byte of the page).  `data` is the shared mapping     *)
(* (the page cache), `disk` is what stable storage holds.                  *)
(***************************************************************************)
EXTENDS Integers, Sequences, FiniteSets, TLC

VARIABLES
    status,     \* "open" | "closed" | "crashed" | "failed" (Open returned an error)
    data,       \* db.data: the mapping, page id -> page
    mapLen,     \* len(db.data) / pageSize
    disk,       \* stable storage, page id -> page
    dbMeta,     \* db.meta
    dbMetaPage, \* db.metaPage
    dbPending,  \* db.pending: sequence of pendingFree
    readTxs,    \* db.readTxs: txid -> count
    mu,         \* db.mu: the writer thread holding it, or NoOwner
    wtx,        \* writer thread -> its transaction
    rtx,        \* reader thread -> its transaction
    ghost       \* history variables used only by the properties

vars == <<status, data, mapLen, disk, dbMeta, dbMetaPage, dbPending, readTxs,
          mu, wtx, rtx, ghost>>

----------------------------------------------------------------------------
(* Bounds of the model. *)

\* db.pageSize.  The source fixes it to defaultPageSize (4096); the model
\* scales it down so that page-capacity cases (inline freelist overflow,
\* node splits) occur with a handful of pages.
PageSize == 72
\* Page ids are 0 .. MaxPage-1; an allocation past the end is not taken.
MaxPage == 15
\* Keys and values are one-byte strings <<1>> .. <<MaxKey>>, <<1>> .. <<MaxVal>>.
MaxKey == 2
MaxVal == 2
\* Bucket names are the one-byte strings <<1>> .. <<MaxName>>.
MaxName == 1
\* Depth of bucket nesting exercised by the operations.
MaxDepth == 2
\* Number of reader and writer threads.
NumReaders == 1
NumWriters == 2
\* Operations a write transaction performs before it must end.
MaxOps == 2
\* Highest transaction id a commit may produce.
MaxTxid == 3
\* System calls that fail in one behaviour.
MaxFaults == 1
\* Cursor scans: the keys are CursorKeyLen bytes long, so that two entries
\* fill a leaf and the third splits it.
NumCursorKeys == 4
CursorKeyLen == 16
\* Puts of long keys in one transaction.
MaxCursorPuts == 4
\* Highest TxID where commits are followed until pending frees of two
\* commits back are reclaimed under an open reader.
MaxReclaimTxid == 4
\* Read-only transactions side by side where the reader table is counted.
NumTableReaders == 3
\* Puts and Deletes of long keys in one transaction.
MaxTreeOps == 5
\* Short keys, Puts in one transaction and lengths of inline values where
\* the fit of leaves is checked: a middle length and the longest that stays
\* inline under a one-byte key.
NumFitKeys == 3
MaxFitPuts == 3
FitMid == 23
FitMax == 52
\* Bucket handles a caller holds in one write transaction, and the calls it
\* makes through them.
MaxHandles == 2
MaxHandleOps == 2
\* Calls after which a transaction that counts sequences makes no more.
MaxSequenceOps == 1
\* Lengths of the values that go to overflow pages: one that fills one page
\* and one that needs two.
OverflowShort == 60
OverflowLong == 70
\* Length of a key that fits in no leaf entry.
LongKeyLen == 54

\* The keys of the reader table.
TxIDs == 0..(IF MaxReclaimTxid > MaxTxid THEN MaxReclaimTxid ELSE MaxTxid)

Keys    == { <<i>> : i \in 1..MaxKey }
Vals    == { <<i>> : i \in 1..MaxVal }
Names   == { <<i>> : i \in 1..MaxName }
Readers == 1..NumReaders
Writers == 1..NumWriters
PageIds == 0..(MaxPage - 1)

\* Bucket paths as the calls name them: those of Paths, and those whose last
\* name is empty.
CallPaths ==
    UNION { { [i \in 1..d |-> IF i = d THEN n ELSE q[i]] :
                  q \in [1..d -> Names], n \in Names \cup {<<>>} } :
            d \in 1..MaxDepth }

\* k01, k02, ...: equal but for the last byte.
CursorKey(i) == [j \in 1..CursorKeyLen |-> IF j = CursorKeyLen THEN i ELSE 0]
CursorKeys == { CursorKey(i) : i \in 1..NumCursorKeys }
\* The bucket the cursor scans run on.
CursorPath == <<<<1>>>>

\* A value of len bytes, no two of these values equal in any byte.
OverflowVal(len) == [j \in 1..len |-> (j + len) % 256]
OverflowVals == { OverflowVal(OverflowShort), OverflowVal(OverflowLong) }
LongKey == [j \in 1..LongKeyLen |-> 1]

----------------------------------------------------------------------------
(* Program constants. *)

metaPage0          == 0
metaPage1          == 1
pageLeaf           == 1
pageBranch         == 2
pageBucket         == 3
pageFreelist       == 4
\* tree.go uses pageOverflow and overflowHeaderSize; the file that declares
\* them is not among the sources.  The values are those of the page format:
\* kind 5, and a header of the kind byte and the 8 bytes of the next page id.
pageOverflow       == 5
overflowHeaderSize == 9
nodeHeaderSize     == 13
freelistHeaderSize == 11
metaHeaderSizeV3   == 44
\* First byte of a page that starts with the magic "LDB3" ('L').
magicByte          == 76

freelistPageCapacity(pageSize)   == (pageSize - freelistHeaderSize) \div 8
metaInlineFreeCapacity(pageSize) == (pageSize - metaHeaderSizeV3) \div 8

----------------------------------------------------------------------------
(* Byte strings. *)

Max(a, b) == IF a > b THEN a ELSE b
Min(a, b) == IF a < b THEN a ELSE b

RECURSIVE BytesCompare(_, _)
\* bytes.Compare: -1, 0 or 1, lexicographic on raw bytes.
BytesCompare(a, b) ==
    IF Len(a) = 0 /\ Len(b) = 0 THEN 0
    ELSE IF Len(a) = 0 THEN -1
    ELSE IF Len(b) = 0 THEN 1
    ELSE IF a[1] < b[1] THEN -1
    ELSE IF a[1] > b[1] THEN 1
    ELSE BytesCompare(Tail(a), Tail(b))

\* binary.LittleEndian.PutUint64 into a fresh 8-byte buffer.  Page ids stay
\* below 2^24 here, so the five high bytes are zero.
encodePageID(id) ==
    [i \in 1..8 |-> IF i = 1 THEN id % 256
                    ELSE IF i = 2 THEN (id \div 256) % 256
                    ELSE IF i = 3 THEN (id \div 65536) % 256
                    ELSE 0]

\* decodePageID: 0 when fewer than 8 bytes.  The value bytes of this model
\* come from encodePageID or are one byte long, so the high bytes read back
\* are zero and the sum does not leave 32-bit integers.
decodePageID(b) ==
    IF Len(b) < 8 THEN 0
    ELSE b[1] + 256 * b[2] + 65536 * b[3]
         + 16777216 * (b[4] + b[5] + b[6] + b[7] + b[8])

insertAt(s, idx, v) ==
    \* idx is the 0-based position the value takes
    SubSeq(s, 1, idx) \o <<v>> \o SubSeq(s, idx + 1, Len(s))

\* removeAt that removes nothing.
removeNothing(s, idx) == s

removeAt(s, idx) ==
    SubSeq(s, 1, idx) \o SubSeq(s, idx + 2, Len(s))

SeqToSet(s) == { s[i] : i \in 1..Len(s) }

\* v under the name the operator F gives it.
With(v, F(_)) == F(v)

----------------------------------------------------------------------------
(* Pages. *)

ZeroPage == [kind |-> 0]

\* A leaf page: entry i has the key, the length of its value and either the
\* value itself (overflow[i] = 0) or the id of its first overflow page.
LeafPageWithOverflow(keys, values, lens, overflow, next) ==
    [kind |-> pageLeaf, keys |-> keys, values |-> values, lens |-> lens,
     overflow |-> overflow, next |-> next]

\* A leaf page whose values are all inline.
LeafPage(keys, values, next) ==
    LeafPageWithOverflow(keys, values, [i \in DOMAIN values |-> Len(values[i])],
                         [i \in DOMAIN values |-> 0], next)

\* An overflow page: the payload is padded with zeros to the end of the page.
OverflowPage(next, bytes) ==
    [kind |-> pageOverflow, next |-> next,
     bytes |-> [i \in 1..(PageSize - overflowHeaderSize) |->
                   IF i <= Len(bytes) THEN bytes[i] ELSE 0]]

BranchPage(keys, children) ==
    [kind |-> pageBranch, keys |-> keys, children |-> children]

BucketPage(kvRoot, bucketRoot, sequence) ==
    [kind |-> pageBucket, kvRoot |-> kvRoot, bucketRoot |-> bucketRoot,
     sequence |-> sequence]

FreelistPage(ids, next) ==
    [kind |-> pageFreelist, ids |-> ids, next |-> next]

\* A meta slot as stored in a page: the header fields and the raw array of
\* inline ids (count says how many of them are meaningful).
MetaPageRec(kind, ps, txid, root, nextPage, freelistPage, count, ids) ==
    [kind |-> kind, pageSize |-> ps, txid |-> txid, root |-> root,
     nextPage |-> nextPage, freelistPage |-> freelistPage, count |-> count,
     ids |-> ids]

\* The in-memory meta struct.
Meta(txid, root, nextPage, freelistPage, freelist) ==
    [txid |-> txid, root |-> root, nextPage |-> nextPage,
     freelistPage |-> freelistPage, freelist |-> freelist]

EmptyMeta == Meta(0, 0, 0, 0, <<>>)

ZeroIds == [i \in 1..metaInlineFreeCapacity(PageSize) |-> 0]

\* The fields writeMetaPage stores, in the order it stores them; field n of
\* the inline ids is 7 + i.
MetaWrites(m) == 7 + Len(m.freelist)

\* The slot after the first n stores of writeMetaPage(page, m, pageSize).
writeMetaPrefix(page, m, pageSize, n) ==
    [kind         |-> IF n >= 1 THEN magicByte ELSE page.kind,
     pageSize     |-> IF n >= 2 THEN pageSize ELSE page.pageSize,
     txid         |-> IF n >= 3 THEN m.txid ELSE page.txid,
     root         |-> IF n >= 4 THEN m.root ELSE page.root,
     nextPage     |-> IF n >= 5 THEN m.nextPage ELSE page.nextPage,
     freelistPage |-> IF n >= 6 THEN m.freelistPage ELSE page.freelistPage,
     count        |-> IF n >= 7 THEN Len(m.freelist) ELSE page.count,
     ids          |-> [i \in DOMAIN page.ids |->
                          IF i <= Len(m.freelist) /\ n >= 7 + i
                          THEN m.freelist[i] ELSE page.ids[i]]]

writeMetaPage(page, m, pageSize) ==
    writeMetaPrefix(page, m, pageSize, MetaWrites(m))

\* readMetaPage: [m, ok, err].
readMetaPage(page, pageSize) ==
    IF page.kind # magicByte
    THEN [m |-> EmptyMeta, ok |-> FALSE, err |-> FALSE]
    ELSE IF page.pageSize # pageSize
    THEN [m |-> EmptyMeta, ok |-> FALSE, err |-> TRUE]
    ELSE IF page.count > (pageSize - metaHeaderSizeV3) \div 8
    THEN [m |-> EmptyMeta, ok |-> FALSE, err |-> TRUE]
    ELSE [m |-> Meta(page.txid, page.root, page.nextPage, page.freelistPage,
                     SubSeq(page.ids, 1, page.count)),
          ok |-> TRUE, err |-> FALSE]

\* What a read outside the mapping yields: the Go runtime panics with an
\* index out of range.
OutOfRange == [kind |-> -1]

\* db.page(id) over a given mapping.
PageOf(d, len, id) == IF id \in 0..(len - 1) THEN d[id] ELSE OutOfRange

page(id) == PageOf(data, mapLen, id)

----------------------------------------------------------------------------
(* txPageManager. *)

NoDirty == [i \in {} |-> ZeroPage]

newTxPageManager(writable, m) ==
    [writable |-> writable,
     root     |-> m.root,
     txid     |-> m.txid,
     nextPage |-> m.nextPage,
     freelist |-> m.freelist,
     pending  |-> <<>>,
     dirty    |-> NoDirty,
     maxPage  |-> IF m.nextPage > 0 THEN m.nextPage - 1 ELSE 0]

ReadPage(m, id) ==
    IF ~m.writable THEN page(id)
    ELSE IF id \in DOMAIN m.dirty THEN m.dirty[id]
    ELSE page(id)

WritePage(m, id, buf) ==
    [m EXCEPT !.dirty = (id :> buf) @@ @, !.maxPage = Max(@, id)]

allocPageFromEnd(m) ==
    [id |-> m.nextPage,
     m  |-> [m EXCEPT !.nextPage = @ + 1, !.maxPage = Max(@, m.nextPage)]]

\* An allocation that takes the first id of the freelist.
AllocPageFifo(m) ==
    IF Len(m.freelist) > 0
    THEN LET id == m.freelist[1]
         IN  [id |-> id,
              m  |-> [m EXCEPT !.freelist = Tail(@), !.maxPage = Max(@, id)]]
    ELSE allocPageFromEnd(m)

AllocPage(m) ==
    IF Len(m.freelist) > 0
    THEN LET id == m.freelist[Len(m.freelist)]
         IN  [id |-> id,
              m  |-> [m EXCEPT !.freelist = SubSeq(@, 1, Len(@) - 1),
                               !.maxPage = Max(@, id)]]
    ELSE allocPageFromEnd(m)

FreePage(m, id) ==
    IF id = metaPage0 \/ id = metaPage1 THEN m
    ELSE [m EXCEPT !.pending = Append(@, id)]

----------------------------------------------------------------------------
(* B+ tree over pages. *)

Node(pageID, isLeaf, keys, values, children, next) ==
    [pageID |-> pageID, isLeaf |-> isLeaf, keys |-> keys, values |-> values,
     children |-> children, next |-> next, overflow |-> <<>>]

NoNode == Node(0, TRUE, <<>>, <<>>, <<>>, 0)

RECURSIVE readOverflowChunks(_, _, _, _)
\* The loop of readOverflowPages: [err, val].
readOverflowChunks(m, pageID, remaining, fuel) ==
    IF remaining <= 0 THEN [err |-> FALSE, val |-> <<>>]
    ELSE With(ReadPage(m, pageID), LAMBDA buf :
             IF buf.kind # pageOverflow \/ fuel = 0
             THEN [err |-> TRUE, val |-> <<>>]
             ELSE LET chunk == Min(remaining, PageSize - overflowHeaderSize)
                  IN  IF remaining - chunk > 0 /\ buf.next = 0
                      THEN [err |-> TRUE, val |-> <<>>]
                      ELSE With(readOverflowChunks(m, buf.next, remaining - chunk,
                                                   fuel - 1), LAMBDA rest :
                               [err |-> rest.err,
                                val |-> SubSeq(buf.bytes, 1, chunk) \o rest.val]))

\* readOverflowPages: [err, val].
readOverflowPages(m, first, length) ==
    IF first = 0 \/ length = 0 THEN [err |-> FALSE, val |-> <<>>]
    ELSE readOverflowChunks(m, first, length, MaxPage)

\* decodeLeafNode: [err, node]; the value of an overflow entry is read from
\* its chain.
decodeLeafNode(m, pageID, buf) ==
    LET vals == [i \in DOMAIN buf.keys |->
                    IF buf.overflow[i] # 0
                    THEN readOverflowPages(m, buf.overflow[i], buf.lens[i])
                    ELSE [err |-> FALSE, val |-> buf.values[i]]]
    IN  IF \E i \in DOMAIN vals : vals[i].err
        THEN [err |-> TRUE, node |-> NoNode]
        ELSE [err |-> FALSE,
              node |-> [Node(pageID, TRUE, buf.keys,
                             [i \in DOMAIN vals |-> vals[i].val], <<>>, buf.next)
                           EXCEPT !.overflow = buf.overflow]]

\* readNode: [err, node]; a page that is neither a leaf nor a branch is
\* "invalid node page".
readNode(m, pageID) ==
    With(ReadPage(m, pageID), LAMBDA buf :
        IF buf.kind = pageLeaf
        THEN decodeLeafNode(m, pageID, buf)
        ELSE IF buf.kind = pageBranch
        THEN [err |-> FALSE,
              node |-> Node(pageID, FALSE, buf.keys, <<>>, buf.children, 0)]
        ELSE [err |-> TRUE, node |-> NoNode])

\* leafEntrySize: [size, overflow, err].  maxValueLength is 2^31 - 1.
leafEntrySize(key, value, pageSize) ==
    LET inlineSize   == 2 + Len(key) + 4 + Len(value)
        overflowSize == 2 + Len(key) + 4 + 8
    IN  IF Len(value) > 2147483647
        THEN [size |-> 0, overflow |-> FALSE, err |-> TRUE]
        ELSE IF nodeHeaderSize + inlineSize <= pageSize
        THEN [size |-> inlineSize, overflow |-> FALSE, err |-> FALSE]
        ELSE IF nodeHeaderSize + overflowSize > pageSize
        THEN [size |-> 0, overflow |-> FALSE, err |-> TRUE]
        ELSE [size |-> overflowSize, overflow |-> TRUE, err |-> FALSE]

RECURSIVE SumSeq(_)
SumSeq(s) == IF Len(s) = 0 THEN 0 ELSE s[1] + SumSeq(Tail(s))

LeafBodySize(n, pageSize) ==
    SumSeq([i \in 1..Len(n.keys) |->
               leafEntrySize(n.keys[i], n.values[i], pageSize).size])

BranchBodySize(n) ==
    Len(n.children) * 8 + SumSeq([i \in 1..Len(n.keys) |-> 2 + Len(n.keys[i])])

nodeFits(pageSize, n) ==
    IF n.isLeaf
    THEN /\ \A i \in 1..Len(n.keys) :
              ~leafEntrySize(n.keys[i], n.values[i], pageSize).err
         /\ nodeHeaderSize + LeafBodySize(n, pageSize) <= pageSize
    ELSE nodeHeaderSize + BranchBodySize(n) <= pageSize

RECURSIVE fciLoop(_, _, _, _)
fciLoop(keys, key, low, high) ==
    IF low < high
    THEN LET mid == (low + high) \div 2
         IN  IF BytesCompare(key, keys[mid + 1]) < 0
             THEN fciLoop(keys, key, low, mid)
             ELSE fciLoop(keys, key, mid + 1, high)
    ELSE low

RECURSIVE fciLeftLoop(_, _, _, _)
fciLeftLoop(keys, key, low, high) ==
    IF low < high
    THEN LET mid == (low + high) \div 2
         IN  IF BytesCompare(key, keys[mid + 1]) <= 0
             THEN fciLeftLoop(keys, key, low, mid)
             ELSE fciLeftLoop(keys, key, mid + 1, high)
    ELSE low

\* A search that sends a key equal to a separator to the left of it.
findChildIndexLeft(keys, key) == fciLeftLoop(keys, key, 0, Len(keys))

\* findChildIndex: 0-based index of the child to descend into.
findChildIndex(keys, key) == fciLoop(keys, key, 0, Len(keys))

RECURSIVE fkiLoop(_, _, _, _)
fkiLoop(keys, key, low, high) ==
    IF low < high
    THEN With(BytesCompare(key, keys[((low + high) \div 2) + 1]), LAMBDA cmp :
             IF cmp = 0 THEN [idx |-> (low + high) \div 2, ok |-> TRUE]
             ELSE IF cmp < 0 THEN fkiLoop(keys, key, low, (low + high) \div 2)
             ELSE fkiLoop(keys, key, ((low + high) \div 2) + 1, high))
    ELSE [idx |-> low, ok |-> FALSE]

\* findKeyIndex: [idx, ok], idx 0-based.
findKeyIndex(keys, key) == fkiLoop(keys, key, 0, Len(keys))

RECURSIVE allocPages(_, _)
\* The first loop of writeOverflowPages, n calls of AllocPage: [m, ids].
allocPages(m, n) ==
    IF n = 0 THEN [m |-> m, ids |-> <<>>]
    ELSE With(AllocPage(m), LAMBDA a :
         With(allocPages(a.m, n - 1), LAMBDA r :
             [m |-> r.m, ids |-> <<a.id>> \o r.ids]))

RECURSIVE writeOverflowChunks(_, _, _)
\* The second loop of writeOverflowPages: the value is cut into the pages.
writeOverflowChunks(m, ids, value) ==
    IF Len(ids) = 0 THEN m
    ELSE LET end  == Min(PageSize - overflowHeaderSize, Len(value))
             next == IF Len(ids) > 1 THEN ids[2] ELSE 0
         IN  writeOverflowChunks(
                 WritePage(m, ids[1], OverflowPage(next, SubSeq(value, 1, end))),
                 Tail(ids), SubSeq(value, end + 1, Len(value)))

\* writeOverflowPages: [m, id], id the first page of the chain.
writeOverflowPages(m, value) ==
    LET payload == PageSize - overflowHeaderSize
    IN  With(allocPages(m, (Len(value) + payload - 1) \div payload), LAMBDA a :
            [m |-> writeOverflowChunks(a.m, a.ids, value),
             id |-> IF Len(a.ids) = 0 THEN 0 ELSE a.ids[1]])

RECURSIVE freeOverflowPages(_, _, _)
\* freeOverflowPages: the chain is walked and freed page by page.
freeOverflowPages(m, pageID, fuel) ==
    IF pageID = 0 \/ fuel = 0 THEN m
    ELSE With(ReadPage(m, pageID), LAMBDA buf :
             IF buf.kind # pageOverflow THEN m
             ELSE freeOverflowPages(FreePage(m, pageID), buf.next, fuel - 1))

\* freeNodeOverflow that frees nothing.
keepNodeOverflow(m, n) == m

RECURSIVE freeOverflowFrom(_, _, _)
\* The loop of freeNodeOverflow over n.overflow from index i.
freeOverflowFrom(m, n, i) ==
    IF i > Len(n.overflow) THEN m
    ELSE freeOverflowFrom(IF n.overflow[i] # 0
                          THEN freeOverflowPages(m, n.overflow[i], MaxPage)
                          ELSE m, n, i + 1)

\* freeNodeOverflow
freeNodeOverflow(m, n) ==
    IF ~n.isLeaf \/ Len(n.overflow) = 0 THEN m ELSE freeOverflowFrom(m, n, 1)

RECURSIVE encodeLeafEntries(_, _, _, _)
\* The loop of encodeLeafPageWithOverflow from entry i at offset pos:
\* [m, values, lens, overflow, err].  A value that does not fit inline goes
\* to overflow pages written on the way; an error leaves them written.
encodeLeafEntries(m, n, i, pos) ==
    IF i > Len(n.keys)
    THEN [m |-> m, values |-> <<>>, lens |-> <<>>, overflow |-> <<>>,
          err |-> FALSE]
    ELSE With(leafEntrySize(n.keys[i], n.values[i], PageSize), LAMBDA e :
             IF e.err \/ pos + e.size > PageSize
             THEN [m |-> m, values |-> <<>>, lens |-> <<>>, overflow |-> <<>>,
                   err |-> TRUE]
             ELSE With(IF e.overflow THEN writeOverflowPages(m, n.values[i])
                       ELSE [m |-> m, id |-> 0], LAMBDA o :
                  With(encodeLeafEntries(o.m, n, i + 1, pos + e.size),
                       LAMBDA rest :
                      [m |-> rest.m,
                       values |-> <<IF e.overflow THEN <<>> ELSE n.values[i]>>
                                      \o rest.values,
                       lens |-> <<Len(n.values[i])>> \o rest.lens,
                       overflow |-> <<o.id>> \o rest.overflow,
                       err |-> rest.err])))

\* writeNode: [m, err].  encodeLeafPageWithOverflow / encodeBranchPage fail
\* with "node too large for page" when the entries pass the end of the page.
writeNode(m, n) ==
    IF n.isLeaf
    THEN With(encodeLeafEntries(m, n, 1, nodeHeaderSize), LAMBDA e :
             IF e.err THEN [m |-> e.m, err |-> TRUE]
             ELSE [m |-> WritePage(e.m, n.pageID,
                                   LeafPageWithOverflow(n.keys, e.values, e.lens,
                                                        e.overflow, n.next)),
                   err |-> FALSE])
    ELSE IF nodeHeaderSize + BranchBodySize(n) > PageSize
         THEN [m |-> m, err |-> TRUE]
         ELSE [m |-> WritePage(m, n.pageID, BranchPage(n.keys, n.children)),
               err |-> FALSE]

\* Result of insert / insertLeaf / insertBranch / splitLeaf / splitBranch.
InsRes(m, newID, promoted, rightID, split, err) ==
    [m |-> m, newID |-> newID, promoted |-> promoted, rightID |-> rightID,
     split |-> split, err |-> err]

InsErr(m) == InsRes(m, 0, <<>>, 0, FALSE, TRUE)

\* The common tail of the insert and split paths: w is the result of the
\* last writeNode.
InsWritten(w, newID, promoted, rightID, split) ==
    IF w.err THEN InsErr(w.m)
    ELSE InsRes(w.m, newID, promoted, rightID, split, FALSE)

\* After a COW insert that did not fail the old page is freed.
InsFreed(r, oldID) == IF r.err THEN r ELSE [r EXCEPT !.m = FreePage(r.m, oldID)]

\* In insertLeaf freeNodeOverflow(t.store, n) comes before that.
InsOverflowFreed(r, n) ==
    IF r.err THEN r ELSE [r EXCEPT !.m = freeNodeOverflow(r.m, n)]

splitLeaf(m, n) ==
    LET mid       == Len(n.keys) \div 2
        left(id)  == [n EXCEPT !.keys = SubSeq(n.keys, 1, mid),
                               !.values = SubSeq(n.values, 1, mid),
                               !.next = id]
        right(id) == Node(id, TRUE, SubSeq(n.keys, mid + 1, Len(n.keys)),
                          SubSeq(n.values, mid + 1, Len(n.values)), <<>>, n.next)
    IN  With(AllocPage(m), LAMBDA a :
        With(writeNode(a.m, left(a.id)), LAMBDA w1 :
            IF w1.err THEN InsErr(w1.m)
            ELSE InsWritten(writeNode(w1.m, right(a.id)), n.pageID,
                            n.keys[mid + 1], a.id, TRUE)))

splitBranch(m, n) ==
    LET mid       == Len(n.keys) \div 2
        left      == [n EXCEPT !.keys = SubSeq(n.keys, 1, mid),
                               !.children = SubSeq(n.children, 1, mid + 1)]
        right(id) == Node(id, FALSE, SubSeq(n.keys, mid + 2, Len(n.keys)), <<>>,
                          SubSeq(n.children, mid + 2, Len(n.children)), 0)
    IN  With(AllocPage(m), LAMBDA a :
        With(writeNode(a.m, left), LAMBDA w1 :
            IF w1.err THEN InsErr(w1.m)
            ELSE InsWritten(writeNode(w1.m, right(a.id)), n.pageID,
                            n.keys[mid + 1], a.id, TRUE)))

\* leafWith that keeps the value of a key that is there.
leafKeepsValue(n, f, key, value) ==
    IF f.ok THEN n
    ELSE [n EXCEPT !.keys = insertAt(@, f.idx, key),
                   !.values = insertAt(@, f.idx, value)]

\* The new leaf content of insertLeaf: the value replaced when the key is
\* there (f.ok), the entry inserted at f.idx otherwise.
leafWith(n, f, key, value) ==
    IF f.ok THEN [n EXCEPT !.values[f.idx + 1] = value]
    ELSE [n EXCEPT !.keys = insertAt(@, f.idx, key),
                   !.values = insertAt(@, f.idx, value)]

insertLeaf(m, n, key, value) ==
    IF leafEntrySize(key, value, PageSize).err THEN InsErr(m)
    ELSE
    With(AllocPage(m), LAMBDA a :
    With(findKeyIndex(n.keys, key), LAMBDA f :
    With([leafWith(n, f, key, value) EXCEPT !.pageID = a.id], LAMBDA newNode :
        IF f.ok \/ nodeFits(PageSize, newNode)
        THEN InsFreed(InsOverflowFreed(
                          InsWritten(writeNode(a.m, newNode), a.id, <<>>, 0, FALSE),
                          n), n.pageID)
        ELSE InsFreed(InsOverflowFreed(splitLeaf(a.m, newNode), n), n.pageID))))

insertBranch(m, n, idx, newChildID, promoted, rightID, split) ==
    LET repl(id) == [n EXCEPT !.pageID = id, !.children[idx + 1] = newChildID]
        grown(id) == IF split
                     THEN [repl(id) EXCEPT !.keys = insertAt(@, idx, promoted),
                                           !.children = insertAt(@, idx + 1, rightID)]
                     ELSE repl(id)
    IN  With(AllocPage(m), LAMBDA a :
        With(grown(a.id), LAMBDA newNode :
            IF nodeFits(PageSize, newNode)
            THEN InsFreed(InsWritten(writeNode(a.m, newNode), a.id, <<>>, 0, FALSE),
                          n.pageID)
            ELSE InsFreed(splitBranch(a.m, newNode), n.pageID)))

RECURSIVE insert(_, _, _, _, _)
\* fuel bounds the descent; it runs out only on a page graph with a cycle,
\* where the source would not return.
insert(m, pageID, key, value, fuel) ==
    With(readNode(m, pageID), LAMBDA r :
        IF r.err \/ fuel = 0 THEN InsErr(m)
        ELSE IF r.node.isLeaf THEN insertLeaf(m, r.node, key, value)
        ELSE With(findChildIndex(r.node.keys, key), LAMBDA idx :
             With(insert(m, r.node.children[idx + 1], key, value, fuel - 1),
                  LAMBDA c :
                 IF c.err THEN c
                 ELSE insertBranch(c.m, r.node, idx, c.newID, c.promoted,
                                   c.rightID, c.split))))

\* bptree.set: [m, root, err]; root is the value left in *t.root.
set(m, root, key, value) ==
    With(insert(m, root, key, value, MaxPage), LAMBDA r :
        IF r.err THEN [m |-> r.m, root |-> root, err |-> TRUE]
        ELSE IF r.split
        THEN With(AllocPage(r.m), LAMBDA a :
             With(writeNode(a.m, Node(a.id, FALSE, <<r.promoted>>, <<>>,
                                      <<r.newID, r.rightID>>, 0)), LAMBDA w :
                 IF w.err THEN [m |-> w.m, root |-> root, err |-> TRUE]
                 ELSE [m |-> w.m, root |-> a.id, err |-> FALSE]))
        ELSE [m |-> r.m, root |-> r.newID, err |-> FALSE])

\* Result of deleteRecursive / deleteLeaf / deleteBranch.
DelRes(m, newID, deleted, err) ==
    [m |-> m, newID |-> newID, deleted |-> deleted, err |-> err]

\* The common tail of deleteLeaf and deleteBranch: w is the result of
\* writeNode for the copy, whose old page is then freed.
DelWritten(w, newID, oldID) ==
    IF w.err THEN DelRes(w.m, 0, FALSE, TRUE)
    ELSE DelRes(FreePage(w.m, oldID), newID, TRUE, FALSE)

deleteLeaf(m, n, key) ==
    With(findKeyIndex(n.keys, key), LAMBDA f :
        IF ~f.ok THEN DelRes(m, n.pageID, FALSE, FALSE)
        ELSE With(AllocPage(m), LAMBDA a :
                 With(writeNode(a.m, [n EXCEPT !.pageID = a.id,
                                               !.keys = removeAt(@, f.idx),
                                               !.values = removeAt(@, f.idx)]),
                      LAMBDA w :
                     DelWritten(IF w.err THEN w
                                ELSE [w EXCEPT !.m = freeNodeOverflow(@, n)],
                                a.id, n.pageID))))

deleteBranch(m, n, idx, newChildID) ==
    With(AllocPage(m), LAMBDA a :
        DelWritten(writeNode(a.m, [n EXCEPT !.pageID = a.id,
                                            !.children[idx + 1] = newChildID]),
                   a.id, n.pageID))

RECURSIVE deleteRecursive(_, _, _, _)
deleteRecursive(m, pageID, key, fuel) ==
    With(readNode(m, pageID), LAMBDA r :
        IF r.err \/ fuel = 0 THEN DelRes(m, 0, FALSE, TRUE)
        ELSE IF r.node.isLeaf THEN deleteLeaf(m, r.node, key)
        ELSE With(findChildIndex(r.node.keys, key), LAMBDA idx :
             With(deleteRecursive(m, r.node.children[idx + 1], key, fuel - 1),
                  LAMBDA c :
                 IF c.err THEN c
                 ELSE IF ~c.deleted THEN DelRes(c.m, pageID, FALSE, FALSE)
                 ELSE deleteBranch(c.m, r.node, idx, c.newID))))

\* bptree.delete: [m, root, deleted, err].
delete(m, root, key) ==
    With(deleteRecursive(m, root, key, MaxPage), LAMBDA d :
        IF d.err THEN [m |-> d.m, root |-> root, deleted |-> FALSE, err |-> TRUE]
        ELSE IF ~d.deleted
        THEN [m |-> d.m, root |-> root, deleted |-> FALSE, err |-> FALSE]
        ELSE With(readNode(d.m, d.newID), LAMBDA r :
                 IF r.err
                 THEN [m |-> d.m, root |-> root, deleted |-> FALSE, err |-> TRUE]
                 ELSE IF ~r.node.isLeaf /\ Len(r.node.keys) = 0
                         /\ Len(r.node.children) = 1
                 THEN [m |-> FreePage(d.m, d.newID), root |-> r.node.children[1],
                       deleted |-> TRUE, err |-> FALSE]
                 ELSE [m |-> d.m, root |-> d.newID, deleted |-> TRUE,
                       err |-> FALSE]))

RECURSIVE findLeaf(_, _, _, _)
\* findLeaf: [err, node].
findLeaf(m, pageID, key, fuel) ==
    With(readNode(m, pageID), LAMBDA r :
        IF r.err \/ fuel = 0 THEN [err |-> TRUE, node |-> NoNode]
        ELSE IF r.node.isLeaf THEN r
        ELSE findLeaf(m, r.node.children[findChildIndex(r.node.keys, key) + 1],
                      key, fuel - 1))

\* bptree.get: [val, ok, err].
get(m, root, key) ==
    With(findLeaf(m, root, key, MaxPage), LAMBDA l :
        IF l.err THEN [val |-> <<>>, ok |-> FALSE, err |-> TRUE]
        ELSE With(findKeyIndex(l.node.keys, key), LAMBDA f :
                 IF ~f.ok THEN [val |-> <<>>, ok |-> FALSE, err |-> FALSE]
                 ELSE [val |-> l.node.values[f.idx + 1], ok |-> TRUE,
                       err |-> FALSE]))

----------------------------------------------------------------------------
(* Buckets. *)

\* A *Bucket handle; NilBucket is the nil pointer.
Handle(name, parent, header, kvRoot, bucketRoot, sequence) ==
    [nil |-> FALSE, name |-> name, parent |-> parent, header |-> header,
     kvRoot |-> kvRoot, bucketRoot |-> bucketRoot, sequence |-> sequence]

NilBucket == [nil |-> TRUE]

\* readBucketHeader: [err, kvRoot, bucketRoot, sequence].
readBucketHeader(m, pageID) ==
    With(ReadPage(m, pageID), LAMBDA buf :
        IF buf.kind # pageBucket
        THEN [err |-> TRUE, kvRoot |-> 0, bucketRoot |-> 0, sequence |-> 0]
        ELSE [err |-> FALSE, kvRoot |-> buf.kvRoot, bucketRoot |-> buf.bucketRoot,
              sequence |-> buf.sequence])

writeBucketHeader(m, pageID, kvRoot, bucketRoot, sequence) ==
    WritePage(m, pageID, BucketPage(kvRoot, bucketRoot, sequence))

\* The handle made from a header page once the name is found in the index.
handleOf(h, name, parent, pageID) ==
    IF h.err THEN NilBucket
    ELSE Handle(name, parent, pageID, h.kvRoot, h.bucketRoot, h.sequence)

\* The lookup shared by Tx.Bucket (index tree m.root, no parent) and
\* Bucket.Bucket (index tree b.bucketRoot, parent b).
lookupBucket(m, indexRoot, parent, name) ==
    IF Len(name) = 0 THEN NilBucket
    ELSE With(get(m, indexRoot, name), LAMBDA g :
             IF g.err \/ ~g.ok THEN NilBucket
             ELSE handleOf(readBucketHeader(m, decodePageID(g.val)), name, parent,
                           decodePageID(g.val)))

\* Tx.Bucket
TxBucket(m, name) == lookupBucket(m, m.root, NilBucket, name)

\* Bucket.Bucket
BucketBucket(m, b, name) ==
    IF b.nil THEN NilBucket ELSE lookupBucket(m, b.bucketRoot, b, name)

RECURSIVE BucketAt(_, _)
\* tx.Bucket(p[1]).Bucket(p[2])...
BucketAt(m, path) ==
    IF Len(path) = 1 THEN TxBucket(m, path[1])
    ELSE BucketBucket(m, BucketAt(m, SubSeq(path, 1, Len(path) - 1)),
                      path[Len(path)])

\* The handle a bucket call on path p goes through: none for a call on the
\* transaction, tx.Bucket(p[1])...Bucket(p[n-1]) otherwise.
ParentAt(m, p) ==
    IF Len(p) = 1 THEN NilBucket ELSE BucketAt(m, SubSeq(p, 1, Len(p) - 1))

\* Bucket.Get: the value, or <<>> for nil.
BucketGet(m, b, key) ==
    IF b.nil THEN <<>>
    ELSE With(get(m, b.kvRoot, key), LAMBDA g :
             IF g.err \/ ~g.ok THEN <<>> ELSE g.val)

\* persistHeader that rewrites the header on the page it is on.
persistHeaderInPlace(m, b) ==
    [m |-> writeBucketHeader(m, b.header, b.kvRoot, b.bucketRoot, b.sequence),
     err |-> FALSE]

RECURSIVE persistHeader(_, _)
\* Bucket.persistHeader, with updateChild on the parent: [m, err].
persistHeader(m, b) ==
    With(AllocPage(m), LAMBDA a :
    With(writeBucketHeader(a.m, a.id, b.kvRoot, b.bucketRoot, b.sequence),
         LAMBDA m1 :
    With(set(m1, IF b.parent.nil THEN m1.root ELSE b.parent.bucketRoot, b.name,
             encodePageID(a.id)), LAMBDA s :
        IF s.err THEN [m |-> s.m, err |-> TRUE]
        ELSE IF b.parent.nil
        THEN [m |-> [s.m EXCEPT !.root = s.root], err |-> FALSE]
        ELSE persistHeader(s.m, [b.parent EXCEPT !.bucketRoot = s.root]))))

\* Bucket.Put on a handle of a writable transaction: [m, err].
BucketPut(m, b, key, value) ==
    With(set(m, b.kvRoot, key, value), LAMBDA s :
        IF s.err THEN [m |-> s.m, err |-> TRUE]
        ELSE persistHeader(s.m, [b EXCEPT !.kvRoot = s.root]))

\* Bucket.Delete on a handle of a writable transaction: [m, err].
BucketDelete(m, b, key) ==
    With(delete(m, b.kvRoot, key), LAMBDA d :
        IF d.err THEN [m |-> d.m, err |-> TRUE]
        ELSE persistHeader(d.m, [b EXCEPT !.kvRoot = d.root]))

\* Tx.createBucket: three pages, header first: [m, b].
createBucket(m) ==
    With(AllocPage(m), LAMBDA a1 :
    With(AllocPage(a1.m), LAMBDA a2 :
    With(AllocPage(a2.m), LAMBDA a3 :
        [m |-> writeBucketHeader(
                   WritePage(WritePage(a3.m, a2.id, LeafPage(<<>>, <<>>, 0)),
                             a3.id, LeafPage(<<>>, <<>>, 0)),
                   a1.id, a2.id, a3.id, 0),
         b |-> Handle(<<>>, NilBucket, a1.id, a2.id, a3.id, 0)])))

RECURSIVE freeTree(_, _, _)
RECURSIVE freeChildren(_, _, _)
\* freeTree(store, rootID), with the loop over the children of a branch.
freeTree(m, rootID, fuel) ==
    IF rootID = 0 \/ fuel = 0 THEN m
    ELSE With(readNode(m, rootID), LAMBDA r :
             IF r.err THEN m
             ELSE IF r.node.isLeaf THEN FreePage(m, rootID)
             ELSE FreePage(freeChildren(m, r.node.children, fuel - 1), rootID))

freeChildren(m, children, fuel) ==
    IF Len(children) = 0 THEN m
    ELSE freeChildren(freeTree(m, children[1], fuel), Tail(children), fuel)

\* Tx.releaseBucket
releaseBucket(m, headerID) ==
    With(readBucketHeader(m, headerID), LAMBDA h :
        IF h.err THEN m
        ELSE FreePage(freeTree(freeTree(m, h.kvRoot, MaxPage), h.bucketRoot,
                               MaxPage), headerID))

\* The end of Tx.CreateBucket / Tx.DeleteBucket: s is the result of the set or
\* delete on the root index, m the manager to keep.
rootIndexDone(s, m) ==
    IF s.err THEN [m |-> s.m, err |-> "io"]
    ELSE [m |-> [m EXCEPT !.root = s.root], err |-> ""]

\* Tx.CreateBucket that does not look for the name first.
TxCreateBucketAgain(m, name) ==
    IF Len(name) = 0 THEN [m |-> m, err |-> "name"]
    ELSE With(createBucket(m), LAMBDA c :
         With(set(c.m, c.m.root, name, encodePageID(c.b.header)),
              LAMBDA s : rootIndexDone(s, s.m)))

\* Tx.DeleteBucket that, like Delete of a key, reports no error for a name
\* that is missing or empty.
TxDeleteBucketQuiet(m, name) ==
    With(get(m, m.root, name), LAMBDA g :
        IF g.err THEN [m |-> m, err |-> "io"]
        ELSE IF ~g.ok THEN [m |-> m, err |-> ""]
        ELSE With(delete(m, m.root, name), LAMBDA d :
                 IF d.err THEN [m |-> d.m, err |-> "io"]
                 ELSE rootIndexDone(d, releaseBucket(d.m, decodePageID(g.val)))))

\* Tx.CreateBucket on a writable transaction: [m, err], err one of
\* "", "name", "exists", "io".
TxCreateBucket(m, name) ==
    IF Len(name) = 0 THEN [m |-> m, err |-> "name"]
    ELSE With(get(m, m.root, name), LAMBDA g :
             IF g.err THEN [m |-> m, err |-> "io"]
             ELSE IF g.ok THEN [m |-> m, err |-> "exists"]
             ELSE With(createBucket(m), LAMBDA c :
                  With(set(c.m, c.m.root, name, encodePageID(c.b.header)),
                       LAMBDA s : rootIndexDone(s, s.m))))

\* Tx.DeleteBucket on a writable transaction: [m, err], err one of
\* "", "name", "notfound", "io".
TxDeleteBucket(m, name) ==
    IF Len(name) = 0 THEN [m |-> m, err |-> "name"]
    ELSE With(get(m, m.root, name), LAMBDA g :
             IF g.err THEN [m |-> m, err |-> "io"]
             ELSE IF ~g.ok THEN [m |-> m, err |-> "notfound"]
             ELSE With(delete(m, m.root, name), LAMBDA d :
                      IF d.err THEN [m |-> d.m, err |-> "io"]
                      ELSE rootIndexDone(d, releaseBucket(d.m, decodePageID(g.val)))))

\* The end of Bucket.CreateBucket / Bucket.DeleteBucket: the result of
\* persistHeader on the parent handle.
childIndexDone(ph) == [m |-> ph.m, err |-> IF ph.err THEN "io" ELSE ""]

\* Bucket.CreateBucket on a handle of a writable transaction: [m, err].
BucketCreateBucket(m, b, name) ==
    IF Len(name) = 0 THEN [m |-> m, err |-> "name"]
    ELSE With(get(m, b.bucketRoot, name), LAMBDA g :
             IF g.err THEN [m |-> m, err |-> "io"]
             ELSE IF g.ok THEN [m |-> m, err |-> "exists"]
             ELSE With(createBucket(m), LAMBDA c :
                  With(set(c.m, b.bucketRoot, name, encodePageID(c.b.header)),
                       LAMBDA s :
                      IF s.err THEN [m |-> s.m, err |-> "io"]
                      ELSE childIndexDone(
                               persistHeader(s.m, [b EXCEPT !.bucketRoot = s.root])))))

\* Bucket.DeleteBucket on a handle of a writable transaction: [m, err].
BucketDeleteBucket(m, b, name) ==
    IF Len(name) = 0 THEN [m |-> m, err |-> "name"]
    ELSE With(get(m, b.bucketRoot, name), LAMBDA g :
             IF g.err THEN [m |-> m, err |-> "io"]
             ELSE IF ~g.ok THEN [m |-> m, err |-> "notfound"]
             ELSE With(delete(m, b.bucketRoot, name), LAMBDA d :
                      IF d.err THEN [m |-> d.m, err |-> "io"]
                      ELSE childIndexDone(
                               persistHeader(releaseBucket(d.m, decodePageID(g.val)),
                                             [b EXCEPT !.bucketRoot = d.root]))))

----------------------------------------------------------------------------
(* The methods of Tx and Bucket, with the checks they make on the
   transaction before they do anything. *)

\* A *Tx as its methods see it.
TxRec(closed, writable, mgr) ==
    [closed |-> closed, writable |-> writable, mgr |-> mgr]

\* The mutating methods.  On a path of length one CreateBucket,
\* CreateBucketIfNotExists and DeleteBucket are the methods of Tx, on a longer
\* path those of the handle tx.Bucket(p[1])...Bucket(p[n-1]); Put, Delete and
\* NextSequence are methods of the handle tx.Bucket(p[1])...Bucket(p[n]).
BucketOps == {"CreateBucket", "CreateBucketIfNotExists", "DeleteBucket"}
KeyOps == {"Put", "Delete"}
ApiOps == BucketOps \cup KeyOps \cup {"NextSequence"}

\* What a method returns: the manager it leaves and the error, one of "",
\* "closed" (ErrTxClosed), "readonly" (ErrTxReadOnly), "name", "exists"
\* (ErrBucketExists), "notfound" (ErrBucketNotFound), "io".
ApiRes(m, err) == [m |-> m, err |-> err]

\* Put and Delete report their error as a flag.
ApiFlag(r) == ApiRes(r.m, IF r.err THEN "io" ELSE "")

\* Bucket.NextSequence on a handle of a writable transaction: [m, err].
BucketNextSequence(m, b) == persistHeader(m, [b EXCEPT !.sequence = @ + 1])

\* The checks without the one for a read-only transaction.
validateClosed(t, nilReceiver) ==
    IF nilReceiver \/ t.closed THEN "closed" ELSE ""

\* The checks at the head of every mutating method (validateWritable
\* without the name): a closed transaction or a nil receiver is ErrTxClosed,
\* a read-only transaction ErrTxReadOnly.
validateTx(t, nilReceiver) ==
    IF nilReceiver \/ t.closed THEN "closed"
    ELSE IF ~t.writable THEN "readonly"
    ELSE ""

\* A handle of a closed transaction, whether it was looked up before the
\* close or after it (when the lookup returns nil), fails the same check.
ReceiverAt(t, op, p) ==
    IF t.closed THEN NilBucket
    ELSE IF op \in BucketOps THEN ParentAt(t.mgr, p)
    ELSE BucketAt(t.mgr, p)

\* The method op on transaction t, on the bucket or name at path p.
ApiCall(t, op, p, k, v) ==
    With(ReceiverAt(t, op, p), LAMBDA b :
    With(validateTx(t, b.nil /\ ~(op \in BucketOps /\ Len(p) = 1)), LAMBDA e :
        IF op = "CreateBucketIfNotExists" /\ ~t.closed /\ ~BucketAt(t.mgr, p).nil
        THEN ApiRes(t.mgr, "")
        ELSE IF e # "" THEN ApiRes(t.mgr, e)
        ELSE IF op \in {"CreateBucket", "CreateBucketIfNotExists"}
        THEN IF Len(p) = 1 THEN TxCreateBucket(t.mgr, p[1])
             ELSE BucketCreateBucket(t.mgr, b, p[Len(p)])
        ELSE IF op = "DeleteBucket"
        THEN IF Len(p) = 1 THEN TxDeleteBucket(t.mgr, p[1])
             ELSE BucketDeleteBucket(t.mgr, b, p[Len(p)])
        ELSE IF op = "Put" THEN ApiFlag(BucketPut(t.mgr, b, k, v))
        ELSE IF op = "Delete" THEN ApiFlag(BucketDelete(t.mgr, b, k))
        ELSE ApiFlag(BucketNextSequence(t.mgr, b))))

\* Tx.Bucket(p[1])...Bucket(p[n]): nil on a closed transaction.
ApiBucket(t, p) == IF t.closed THEN NilBucket ELSE BucketAt(t.mgr, p)

\* Tx.Bucket(p[1])...Bucket(p[n]).Get(k): nil on a closed transaction.
ApiGet(t, p, k) ==
    IF t.closed THEN <<>> ELSE BucketGet(t.mgr, BucketAt(t.mgr, p), k)

----------------------------------------------------------------------------
(* Cursors. *)

\* The cursor's position: the leaf it holds (a copy of the node, as read when
\* the cursor arrived there) and the index in it.  NoCursor has no leaf.
Cursor(leaf, index) == [nil |-> FALSE, leaf |-> leaf, index |-> index]
NoCursor == [nil |-> TRUE]

\* What First and Next return with the cursor they leave: the pair, or nil.
CursorAt(c) ==
    [c |-> c, nil |-> FALSE, key |-> c.leaf.keys[c.index + 1],
     value |-> c.leaf.values[c.index + 1]]
CursorNil(c) == [c |-> c, nil |-> TRUE, key |-> <<>>, value |-> <<>>]

RECURSIVE descendLeft(_, _, _)
\* Cursor.descendLeft: [err, node].
descendLeft(m, pageID, fuel) ==
    With(readNode(m, pageID), LAMBDA r :
        IF r.err \/ fuel = 0 THEN [err |-> TRUE, node |-> NoNode]
        ELSE IF r.node.isLeaf THEN r
        ELSE descendLeft(m, r.node.children[1], fuel - 1))

\* Cursor.First on a cursor of the tree at root.
CursorFirst(m, root) ==
    With(descendLeft(m, root, MaxPage), LAMBDA l :
        IF l.err \/ Len(l.node.keys) = 0 THEN CursorNil(NoCursor)
        ELSE CursorAt(Cursor(l.node, 0)))

RECURSIVE nextLeaf(_, _, _)
\* The loop of Cursor.Next over c.leaf.next.
nextLeaf(m, c, fuel) ==
    IF c.leaf.next = 0 \/ fuel = 0 THEN CursorNil(c)
    ELSE With(readNode(m, c.leaf.next), LAMBDA r :
             IF r.err \/ ~r.node.isLeaf THEN CursorNil(c)
             ELSE IF Len(r.node.keys) > 0 THEN CursorAt(Cursor(r.node, 0))
             ELSE nextLeaf(m, Cursor(r.node, 0), fuel - 1))

\* Cursor.Next
CursorNext(m, c) ==
    IF c.nil THEN CursorNil(c)
    ELSE IF c.index + 1 < Len(c.leaf.keys)
    THEN CursorAt([c EXCEPT !.index = @ + 1])
    ELSE nextLeaf(m, [c EXCEPT !.index = @ + 1], MaxPage)

RECURSIVE seekLeaf(_, _, _, _)
\* Cursor.seekLeaf: [err, node, idx].
seekLeaf(m, pageID, seek, fuel) ==
    With(readNode(m, pageID), LAMBDA r :
        IF r.err \/ fuel = 0 THEN [err |-> TRUE, node |-> NoNode, idx |-> 0]
        ELSE IF r.node.isLeaf
        THEN [err |-> FALSE, node |-> r.node,
              idx |-> findKeyIndex(r.node.keys, seek).idx]
        ELSE seekLeaf(m, r.node.children[findChildIndex(r.node.keys, seek) + 1],
                      seek, fuel - 1))

\* Cursor.Seek on a cursor of the tree at root.
CursorSeek(m, root, seek) ==
    With(seekLeaf(m, root, seek, MaxPage), LAMBDA l :
        IF l.err THEN CursorNil(NoCursor)
        ELSE IF l.idx >= Len(l.node.keys)
        THEN CursorNext(m, Cursor(l.node, Len(l.node.keys) - 1))
        ELSE CursorAt(Cursor(l.node, l.idx)))

RECURSIVE scanFrom(_, _, _)
\* The pairs from r on, calling Next until it returns nil.
scanFrom(m, r, fuel) ==
    IF r.nil \/ fuel = 0 THEN <<>>
    ELSE <<<<r.key, r.value>>>> \o scanFrom(m, CursorNext(m, r.c), fuel - 1)

\* b.Cursor(), Seek(seek), then Next until nil: the sequence of pairs visited.
CursorSeekScan(m, b, seek) ==
    IF b.nil THEN <<>>
    ELSE scanFrom(m, CursorSeek(m, b.kvRoot, seek),
                  2 * (NumCursorKeys + MaxKey) + 1)

\* b.Cursor(), First, then Next until nil: the sequence of pairs visited.
CursorScan(m, b) ==
    IF b.nil THEN <<>>
    ELSE scanFrom(m, CursorFirst(m, b.kvRoot), 2 * (NumCursorKeys + MaxKey) + 1)

----------------------------------------------------------------------------
(* What a transaction can read: bucket path -> contents. *)

Paths == UNION { [1..d -> Names] : d \in 1..MaxDepth }

NoBucketView == [exists |-> FALSE, kv |-> [k \in Keys |-> <<>>]]
EmptyBucketView == [exists |-> TRUE, kv |-> [k \in Keys |-> <<>>]]

\* What the handle b shows: every Get the transaction can make on it.
BucketView(m, b) ==
    IF b.nil THEN NoBucketView
    ELSE [exists |-> TRUE, kv |-> [k \in Keys |-> BucketGet(m, b, k)]]

\* Every lookup and Get the transaction with manager m can make.
View(m) == [p \in Paths |-> BucketView(m, BucketAt(m, p))]

EmptyView == [p \in Paths |-> NoBucketView]

IsPrefix(p, q) == Len(p) <= Len(q) /\ SubSeq(q, 1, Len(p)) = p

\* The map the operations are meant to implement.
AbsPut(v, p, k, val) == [v EXCEPT ![p].kv[k] = val]
AbsDelete(v, p, k) == [v EXCEPT ![p].kv[k] = <<>>]
AbsCreateBucket(v, p) == [v EXCEPT ![p] = EmptyBucketView]
AbsDeleteBucket(v, p) ==
    [q \in Paths |-> IF IsPrefix(p, q) THEN NoBucketView ELSE v[q]]

----------------------------------------------------------------------------
(* Reader table, freelist chain and the commit pipeline. *)

NoOwner == 0

PendingFree(txid, id) == [txid |-> txid, id |-> id]

\* DB.snapshotMeta
snapshotMeta == dbMeta

\* A removal that drops the TxID from the table whatever its count.
removeReadTxAll(t, txid) == [t EXCEPT ![txid] = 0]

\* DB.addReadTx / DB.removeReadTx on the table.
addReadTx(t, txid) == [t EXCEPT ![txid] = @ + 1]

removeReadTx(t, txid) == IF t[txid] >= 1 THEN [t EXCEPT ![txid] = @ - 1] ELSE t

\* Tx.close: what it leaves of the writer latch m and of the reader table.
\* Nothing for a closed transaction; db.mu.Unlock for a writable one;
\* removeReadTx for a read-only one.
close(t, m, readers) ==
    IF t.closed THEN [mu |-> m, readTxs |-> readers]
    ELSE IF t.writable THEN [mu |-> NoOwner, readTxs |-> readers]
    ELSE [mu |-> m,
          readTxs |-> IF t.mgr.txid # 0 THEN removeReadTx(readers, t.mgr.txid)
                      ELSE readers]

EndOps == {"Commit", "Rollback"}

\* Commit and Rollback that release whatever the transaction is.
TxEndAgain(t, op, m, readers) ==
    [mu |-> IF t.writable THEN NoOwner ELSE m,
     readTxs |-> IF ~t.writable /\ t.mgr.txid # 0
                 THEN removeReadTx(readers, t.mgr.txid) ELSE readers,
     err |-> ""]

\* Tx.Commit and Tx.Rollback but for the commit of an open write
\* transaction (the pipeline below): [mu, readTxs, err].  On a closed
\* transaction Commit is ErrTxClosed and Rollback returns at once; a
\* read-only transaction is closed by either; Rollback of a write
\* transaction drops what the manager holds and closes.
TxEnd(t, op, m, readers) ==
    IF t.closed
    THEN [mu |-> m, readTxs |-> readers,
          err |-> IF op = "Commit" THEN "closed" ELSE ""]
    ELSE With(close(t, m, readers), LAMBDA c :
             [mu |-> c.mu, readTxs |-> c.readTxs, err |-> ""])

SetMin(S) == CHOOSE x \in S : \A y \in S : x <= y

\* DB.minReadTxID: the results [min, ok] the loop over the map can give.  The
\* loop treats min = 0 as "not set yet", so with key 0 and other keys the
\* result depends on the iteration order of the map.
minReadTxID(t) ==
    LET keys == { x \in DOMAIN t : t[x] > 0 }
    IN  IF keys = {} THEN { [min |-> 0, ok |-> FALSE] }
        ELSE IF 0 \in keys /\ keys # {0}
        THEN { [min |-> 0, ok |-> TRUE], [min |-> SetMin(keys \ {0}), ok |-> TRUE] }
        ELSE { [min |-> SetMin(keys), ok |-> TRUE] }

\* A threshold that keeps what the committing transaction freed pending.
reuseThresholdOwnKept(mr, txid) ==
    IF mr.ok THEN [minRead |-> mr.min, threshold |-> mr.min]
    ELSE [minRead |-> 0, threshold |-> txid]

\* txPageManager.reuseThreshold, given the result of minReadTxID.
reuseThreshold(mr, txid) ==
    IF mr.ok THEN [minRead |-> mr.min, threshold |-> mr.min]
    ELSE [minRead |-> 0, threshold |-> txid + 1]

\* txPageManager.collectReusable: [reusable, remaining].
collectReusable(m, dbpending, txid, minRead, threshold) ==
    LET Reuse(e) == e.txid < threshold /\ (minRead = 0 \/ e.txid < minRead)
        ids(s)   == [i \in 1..Len(s) |-> s[i].id]
    IN  With(dbpending \o [i \in 1..Len(m.pending) |->
                              PendingFree(txid, m.pending[i])], LAMBDA pending :
            [reusable  |-> ids(SelectSeq(pending, Reuse)),
             remaining |-> SelectSeq(pending, LAMBDA e : ~Reuse(e))])

RECURSIVE readFreelistChain(_, _, _, _)
\* DB.readFreelistChain over a mapping: [ids, pages, err, panic].
readFreelistChain(d, len, pageID, fuel) ==
    IF pageID = 0
    THEN [ids |-> <<>>, pages |-> <<>>, err |-> FALSE, panic |-> FALSE]
    ELSE With(PageOf(d, len, pageID), LAMBDA buf :
             IF buf = OutOfRange
             THEN [ids |-> <<>>, pages |-> <<>>, err |-> FALSE, panic |-> TRUE]
             ELSE IF buf.kind # pageFreelist \/ fuel = 0
             THEN [ids |-> <<>>, pages |-> <<>>, err |-> TRUE, panic |-> FALSE]
             ELSE With(readFreelistChain(d, len, buf.next, fuel - 1), LAMBDA rest :
                      IF rest.err \/ rest.panic THEN rest
                      ELSE [rest EXCEPT !.ids = buf.ids \o @,
                                        !.pages = <<pageID>> \o @]))

\* DB.freelistPageIDs
freelistPageIDs == readFreelistChain(data, mapLen, dbMeta.freelistPage, MaxPage)

RECURSIVE selectTail(_, _, _, _)
\* The loop of persistFreelist that picks chain hosts from the tail of free.
selectTail(free, i, protected, pageIDs) ==
    IF i = 0 \/ Len(pageIDs.ids) >= pageIDs.need THEN pageIDs.ids
    ELSE IF free[i] \in protected \/ free[i] \in SeqToSet(pageIDs.ids)
    THEN selectTail(free, i - 1, protected, pageIDs)
    ELSE selectTail(free, i - 1, protected,
                    [pageIDs EXCEPT !.ids = Append(@, free[i])])

RECURSIVE allocHosts(_, _, _)
\* The loop of persistFreelist that takes the missing hosts from the end.
allocHosts(m, ids, need) ==
    IF Len(ids) >= need THEN [m |-> m, ids |-> ids]
    ELSE With(allocPageFromEnd(m), LAMBDA a :
             allocHosts(a.m, Append(ids, a.id), need))

RECURSIVE writeFreelistPages(_, _, _)
\* txPageManager.writeFreelistPages: the pages go through WritePage.
writeFreelistPages(m, pageIDs, ids) ==
    IF Len(pageIDs) = 0 THEN m
    ELSE LET end  == Min(freelistPageCapacity(PageSize), Len(ids))
             next == IF Len(pageIDs) > 1 THEN pageIDs[2] ELSE 0
         IN  writeFreelistPages(
                 WritePage(m, pageIDs[1], FreelistPage(SubSeq(ids, 1, end), next)),
                 Tail(pageIDs), SubSeq(ids, end + 1, Len(ids)))

\* The end of persistFreelist: hosts are the chain pages, kept the free ids
\* that are not hosts.
persistChain(hosts, kept) ==
    LET inlineCap == Min(metaInlineFreeCapacity(PageSize), Len(kept))
    IN  IF Len(kept) - inlineCap > Len(hosts.ids) * freelistPageCapacity(PageSize)
        THEN [m |-> hosts.m, inline |-> <<>>, freelistPage |-> 0, err |-> TRUE]
        ELSE [m |-> writeFreelistPages(hosts.m, hosts.ids,
                                       SubSeq(kept, inlineCap + 1, Len(kept))),
              inline |-> SubSeq(kept, 1, inlineCap),
              freelistPage |-> hosts.ids[1], err |-> FALSE]

\* txPageManager.persistFreelist: [m, inline, freelistPage, err].
persistFreelist(m, free, protected) ==
    IF Len(free) <= metaInlineFreeCapacity(PageSize)
    THEN [m |-> m, inline |-> free, freelistPage |-> 0, err |-> FALSE]
    ELSE
    LET perPage     == freelistPageCapacity(PageSize)
        pagesNeeded == (Len(free) - metaInlineFreeCapacity(PageSize) + perPage)
                           \div (perPage + 1)
    IN  With(selectTail(free, Len(free), SeqToSet(protected),
                        [ids |-> <<>>, need |-> pagesNeeded]), LAMBDA selected :
            persistChain(allocHosts(m, selected, pagesNeeded),
                         SelectSeq(free, LAMBDA id : id \notin SeqToSet(selected))))

\* The slot that is live.
liveMetaPage == dbMetaPage

\* txPageManager.nextMetaPage
nextMetaPage == IF dbMetaPage = metaPage0 THEN metaPage1 ELSE metaPage0

\* The part of finalizeMeta before it takes the meta latch, given the result
\* mr of minReadTxID: [m, newMeta, remaining, slot, err, panic].
finalizeCollect(m, mr) ==
    With(reuseThreshold(mr, m.txid + 1), LAMBDA th :
    With(collectReusable(m, dbPending, m.txid + 1, th.minRead, th.threshold),
         LAMBDA cr :
    With(freelistPageIDs, LAMBDA old :
        IF old.panic \/ old.err
        THEN [m |-> m, newMeta |-> EmptyMeta, remaining |-> <<>>, slot |-> 0,
              free |-> <<>>, err |-> old.err, panic |-> old.panic]
        ELSE With(persistFreelist(m, m.freelist \o cr.reusable \o old.pages,
                                  old.pages), LAMBDA pf :
                 [m |-> pf.m,
                  newMeta |-> Meta(m.txid + 1, m.root, m.nextPage, pf.freelistPage,
                                   pf.inline),
                  remaining |-> cr.remaining, slot |-> nextMetaPage,
                  free |-> m.freelist \o cr.reusable \o old.pages,
                  err |-> pf.err, panic |-> FALSE]))))

\* txPageManager.flushDirty over the mapping.
flushDirty(m) ==
    [id \in DOMAIN data |-> IF id \in DOMAIN m.dirty THEN m.dirty[id] ELSE data[id]]

\* Pages the mapping must cover for ensureMapSize.
requiredPages(m) == m.maxPage + 1

\* DB.msync: every page of the mapping reaches the device.
msynced == [id \in DOMAIN disk |-> IF id < mapLen THEN data[id] ELSE disk[id]]

\* The choice that takes the first slot whenever it is valid.
pickFirst(r0, r1) ==
    IF r0.err \/ r1.err THEN [m |-> EmptyMeta, slot |-> 0, err |-> TRUE]
    ELSE IF r0.ok THEN [m |-> r0.m, slot |-> metaPage0, err |-> FALSE]
    ELSE IF r1.ok THEN [m |-> r1.m, slot |-> metaPage1, err |-> FALSE]
    ELSE [m |-> EmptyMeta, slot |-> 0, err |-> TRUE]

\* The choice between the two slots in readMetaPair.
pickMeta(r0, r1) ==
    IF r0.err \/ r1.err THEN [m |-> EmptyMeta, slot |-> 0, err |-> TRUE]
    ELSE IF r0.ok /\ r1.ok
    THEN IF r1.m.txid > r0.m.txid
         THEN [m |-> r1.m, slot |-> metaPage1, err |-> FALSE]
         ELSE [m |-> r0.m, slot |-> metaPage0, err |-> FALSE]
    ELSE IF r0.ok THEN [m |-> r0.m, slot |-> metaPage0, err |-> FALSE]
    ELSE IF r1.ok THEN [m |-> r1.m, slot |-> metaPage1, err |-> FALSE]
    ELSE [m |-> EmptyMeta, slot |-> 0, err |-> TRUE]

\* DB.readMetaPair over a mapping: [m, slot, err].
readMetaPair(d, len) ==
    pickMeta(readMetaPage(PageOf(d, len, metaPage0), PageSize),
             readMetaPage(PageOf(d, len, metaPage1), PageSize))

\* DB.loadExisting over a mapping: [m, slot, err]; a panic of the chain walk
\* ends Open as an error does.
loadExisting(d, len) ==
    With(readMetaPair(d, len), LAMBDA r :
        IF r.err THEN r
        ELSE IF r.m.freelistPage # 0
        THEN With(readFreelistChain(d, len, r.m.freelistPage, MaxPage), LAMBDA c :
                 IF c.err \/ c.panic THEN [r EXCEPT !.err = TRUE]
                 ELSE [r EXCEPT !.m.freelist = @ \o c.ids])
        ELSE r)

----------------------------------------------------------------------------
(* State. *)

NoTx == [state |-> "none"]

WTx(state, mgr, ops, fin) ==
    [state |-> state, mgr |-> mgr, ops |-> ops, fin |-> fin]

NoFin == [newMeta |-> EmptyMeta, remaining |-> <<>>, slot |-> 0, free |-> <<>>]

RTx(state, mgr) == [state |-> state, mgr |-> mgr]

\* Readers holding the mapping latch shared (from RLock in begin to close).
mapReaders == { r \in DOMAIN rtx : rtx[r].state # "none" }

\* Writers inside txPageManager.commit.
InCommit == { w \in Writers :
                wtx[w].state \in {"flushed", "synced", "collected", "published"} }

\* A root with the contents it stands for.
Snap(root, view) == [root |-> root, view |-> view]

\* What the transaction w began from.
Begun(meta, pending, view) == [meta |-> meta, pending |-> pending, view |-> view]

NotBegun == Begun(EmptyMeta, <<>>, EmptyView)

\* A call on a write transaction: err is "" for a nil error.
Call(op, path, key, err) == [op |-> op, path |-> path, key |-> key, err |-> err]

NoCall == Call("none", <<>>, <<>>, "")

\* The free list of a commit, before any commit.
NoFree == [all |-> <<>>, chain |-> [ids |-> <<>>, pages |-> <<>>], inline |-> <<>>]

NotRecovered ==
    [after |-> "none", ok |-> TRUE, snap |-> Snap(0, EmptyView), inCommit |-> FALSE,
     durable |-> FALSE, free |-> <<>>, left |-> NoFree]

\* DB.initEmpty on a fresh three-page file, followed by its msync.
InitPages ==
    [id \in PageIds |->
        IF id = metaPage0
        THEN writeMetaPage(MetaPageRec(0, 0, 0, 0, 0, 0, 0, ZeroIds),
                           Meta(1, 2, 3, 0, <<>>), PageSize)
        ELSE IF id = metaPage1
        THEN writeMetaPage(MetaPageRec(0, 0, 0, 0, 0, 0, 0, ZeroIds),
                           EmptyMeta, PageSize)
        ELSE IF id = 2 THEN LeafPage(<<>>, <<>>, 0)
        ELSE ZeroPage]

\* Who made the call of ghost.last: a write or a read-only transaction.
W(w) == <<"w", w>>
R(r) == <<"r", r>>
\* The same after the transaction was closed.
ClosedW(w) == <<"cw", w>>
ClosedR(r) == <<"cr", r>>
NoCaller == <<"none", 0>>

\* The manager before any call: that of a read-only transaction on a file
\* that holds nothing.
NoMgr == newTxPageManager(FALSE, EmptyMeta)

RECURSIVE chainOf(_, _, _)
\* The freelist chain from pageID as a transaction reads it through
\* ReadPage, its own dirty pages first: [ids, pages].
chainOf(m, pageID, fuel) ==
    IF pageID = 0 \/ fuel = 0
    THEN [ids |-> <<>>, pages |-> <<>>]
    ELSE With(ReadPage(m, pageID), LAMBDA buf :
             IF buf = OutOfRange THEN [ids |-> <<>>, pages |-> <<>>]
             ELSE IF buf.kind # pageFreelist THEN [ids |-> <<>>, pages |-> <<>>]
             ELSE With(chainOf(m, buf.next, fuel - 1), LAMBDA rest :
                      [ids |-> buf.ids \o rest.ids,
                       pages |-> <<pageID>> \o rest.pages]))

\* The history variable ghost records: published, the contents that went
\* live with the live meta; committed, the root and contents of the last
\* transaction whose Commit returned nil; wabs and rabs, what each
\* transaction is meant to read; begun, what each write transaction began
\* from; allowed, after a Close or a crash, the roots and contents the next
\* Open may find; recovered, what that Open found; faults, how many system
\* calls have failed; result, how the latest write transaction ended, until the
\* next one begins ("nil" and "error" are what Commit returned); last, the
\* latest call made on the latest write transaction and the error it returned.  caller says
\* which transaction made it and pre is the manager of that transaction
\* before the call; cursor is what the long keys of the cursor scans were
\* last put to; free is the free list of the commit whose meta went live
\* last: all, the ids handed to persistFreelist, inline, the ids of its meta,
\* and chain, the freelist pages as that transaction reads them; recovered
\* keeps in left the free list that was live when Open ran and in free the
\* one Open rebuilt; handles are the *Bucket values the caller of a write
\* transaction holds, in the order it got them; seq is, for the bucket of
\* the cursor scans, the value NextSequence returned last in the write
\* transaction, and before its first call the sequence the transaction
\* found.
InitGhost ==
    [published |-> EmptyView,
     committed |-> Snap(2, EmptyView),
     wabs      |-> [w \in Writers |-> EmptyView],
     rabs      |-> [r \in Readers |-> EmptyView],
     begun     |-> [w \in Writers |-> NotBegun],
     allowed   |-> {},
     recovered |-> NotRecovered,
     faults    |-> 0,
     result    |-> [w \in Writers |-> "none"],
     cursor    |-> [k \in CursorKeys |-> <<>>],
     last      |-> NoCall,
     caller    |-> NoCaller,
     pre       |-> NoMgr,
     free      |-> NoFree,
     handles   |-> [w \in Writers |-> <<>>],
     seq       |-> [w \in Writers |-> 0]]

Init ==
    /\ status = "open"
    /\ data = InitPages
    /\ mapLen = 3
    /\ disk = InitPages
    /\ dbMeta = Meta(1, 2, 3, 0, <<>>)
    /\ dbMetaPage = metaPage0
    /\ dbPending = <<>>
    /\ readTxs = [t \in TxIDs |-> 0]
    /\ mu = NoOwner
    /\ wtx = [w \in Writers |-> NoTx]
    /\ rtx = [r \in Readers |-> NoTx]
    /\ ghost = InitGhost

\* The manager of a read-only transaction begun now.
live == newTxPageManager(FALSE, snapshotMeta)

\* tx.Bucket(p...).Sequence() in the transaction of manager m; Sequence of
\* the nil handle is 0.
SequenceAt(m, p) ==
    With(BucketAt(m, p), LAMBDA b : IF b.nil THEN 0 ELSE b.sequence)

----------------------------------------------------------------------------
(* Read-only transactions. *)

\* DB.begin(false), up to and including snapshotMeta: the mapping latch is
\* taken shared and the live meta is copied.
BeginReadSnapshot(r) ==
    /\ status = "open"
    /\ rtx[r].state = "none"
    /\ rtx' = [rtx EXCEPT ![r] = RTx("snap", live)]
    /\ ghost' = [ghost EXCEPT !.rabs[r] = ghost.published]
    /\ UNCHANGED <<status, data, mapLen, disk, dbMeta, dbMetaPage, dbPending,
                   readTxs, mu, wtx>>

\* DB.begin(false), addReadTx(meta.txid) and the return of the Tx.
BeginReadRegister(r) ==
    /\ status = "open"
    /\ rtx[r].state = "snap"
    /\ readTxs' = addReadTx(readTxs, rtx[r].mgr.txid)
    /\ rtx' = [rtx EXCEPT ![r].state = "open"]
    /\ UNCHANGED <<status, data, mapLen, disk, dbMeta, dbMetaPage, dbPending,
                   mu, wtx, ghost>>

\* Tx.Rollback / Tx.Commit of a read-only transaction (Tx.close).
ReadClose(r) ==
    /\ status = "open"
    /\ rtx[r].state = "open"
    /\ readTxs' = IF rtx[r].mgr.txid # 0
                  THEN removeReadTx(readTxs, rtx[r].mgr.txid) ELSE readTxs
    /\ rtx' = [rtx EXCEPT ![r] = NoTx]
    /\ ghost' = [ghost EXCEPT !.rabs[r] = EmptyView]
    /\ UNCHANGED <<status, data, mapLen, disk, dbMeta, dbMetaPage, dbPending,
                   mu, wtx>>

----------------------------------------------------------------------------
(* Write transactions. *)

\* BeginWrite that does not wait for the writer latch.
BeginWriteNoLatch(w) ==
    /\ status = "open"
    /\ wtx[w].state = "none"
    /\ dbMeta.txid < MaxTxid
    /\ mu' = w
    /\ wtx' = [wtx EXCEPT ![w] = WTx("open", newTxPageManager(TRUE, snapshotMeta),
                                     0, NoFin)]
    /\ ghost' = [ghost EXCEPT !.wabs[w] = ghost.published,
                              !.begun[w] = Begun(dbMeta, dbPending, ghost.published),
                              !.result = [x \in Writers |-> "none"],
                              !.last = NoCall,
                              !.caller = NoCaller,
                              !.pre = NoMgr,
                              !.handles[w] = <<>>,
                              !.seq[w] = SequenceAt(live, CursorPath)]
    /\ UNCHANGED <<status, data, mapLen, disk, dbMeta, dbMetaPage, dbPending,
                   readTxs, rtx>>

\* DB.begin(true): db.mu.Lock, snapshotMeta, newTxPageManager; write
\* transactions begin while the live TxID is below last.
BeginWriteUpTo(w, last) ==
    /\ status = "open"
    /\ wtx[w].state = "none"
    /\ mu = NoOwner
    /\ dbMeta.txid < last
    /\ mu' = w
    /\ wtx' = [wtx EXCEPT ![w] = WTx("open", newTxPageManager(TRUE, snapshotMeta),
                                     0, NoFin)]
    /\ ghost' = [ghost EXCEPT !.wabs[w] = ghost.published,
                              !.begun[w] = Begun(dbMeta, dbPending, ghost.published),
                              !.result = [x \in Writers |-> "none"],
                              !.last = NoCall,
                              !.caller = NoCaller,
                              !.pre = NoMgr,
                              !.handles[w] = <<>>,
                              !.seq[w] = SequenceAt(live, CursorPath)]
    /\ UNCHANGED <<status, data, mapLen, disk, dbMeta, dbMetaPage, dbPending,
                   readTxs, rtx>>

\* DB.begin(true)
BeginWrite(w) == BeginWriteUpTo(w, MaxTxid)

\* One call on the open write transaction of w leaves manager m; abs is what
\* the transaction is then meant to read.
WriterStep(w, m, abs, call) ==
    /\ m.nextPage <= MaxPage
    /\ wtx' = [wtx EXCEPT ![w].mgr = m, ![w].ops = @ + 1]
    /\ ghost' = [ghost EXCEPT !.wabs[w] = abs, !.last = call,
                              !.caller = W(w), !.pre = wtx[w].mgr]
    /\ UNCHANGED <<status, data, mapLen, disk, dbMeta, dbMetaPage, dbPending,
                   readTxs, mu, rtx>>

CanStep(w) ==
    /\ status = "open"
    /\ wtx[w].state = "open"
    /\ wtx[w].ops < MaxOps

\* tx.Bucket(p...).Put(k, v)
Put(w, p, k, v) ==
    /\ CanStep(w)
    /\ \E b \in {BucketAt(wtx[w].mgr, p)} :
          /\ ~b.nil
          /\ \E r \in {BucketPut(wtx[w].mgr, b, k, v)} :
                WriterStep(w, r.m,
                           IF r.err THEN ghost.wabs[w]
                           ELSE AbsPut(ghost.wabs[w], p, k, v),
                           Call("Put", p, k, IF r.err THEN "error" ELSE ""))

\* tx.Bucket(p...).Delete(k)
Delete(w, p, k) ==
    /\ CanStep(w)
    /\ \E b \in {BucketAt(wtx[w].mgr, p)} :
          /\ ~b.nil
          /\ \E r \in {BucketDelete(wtx[w].mgr, b, k)} :
                WriterStep(w, r.m,
                           IF r.err THEN ghost.wabs[w]
                           ELSE AbsDelete(ghost.wabs[w], p, k),
                           Call("Delete", p, k, IF r.err THEN "error" ELSE ""))

\* tx.CreateBucket(name), or tx.Bucket(parent...).CreateBucket(name)
CreateBucket(w, p) ==
    /\ CanStep(w)
    /\ \E b \in {ParentAt(wtx[w].mgr, p)} :
          /\ Len(p) > 1 => ~b.nil
          /\ \E r \in {IF Len(p) = 1 THEN TxCreateBucket(wtx[w].mgr, p[1])
                       ELSE BucketCreateBucket(wtx[w].mgr, b, p[Len(p)])} :
                WriterStep(w, r.m,
                           IF r.err # "" THEN ghost.wabs[w]
                           ELSE AbsCreateBucket(ghost.wabs[w], p),
                           Call("CreateBucket", p, <<>>, r.err))

\* tx.DeleteBucket(name), or tx.Bucket(parent...).DeleteBucket(name)
DeleteBucket(w, p) ==
    /\ CanStep(w)
    /\ \E b \in {ParentAt(wtx[w].mgr, p)} :
          /\ Len(p) > 1 => ~b.nil
          /\ \E r \in {IF Len(p) = 1 THEN TxDeleteBucket(wtx[w].mgr, p[1])
                       ELSE BucketDeleteBucket(wtx[w].mgr, b, p[Len(p)])} :
                WriterStep(w, r.m,
                           IF r.err # "" THEN ghost.wabs[w]
                           ELSE AbsDeleteBucket(ghost.wabs[w], p),
                           Call("DeleteBucket", p, <<>>, r.err))

\* tx.Bucket(CursorPath).Put(k, v) with a long key.
CursorPut(w, k, v) ==
    /\ status = "open"
    /\ wtx[w].state = "open"
    /\ wtx[w].ops <= MaxCursorPuts
    /\ \E b \in {BucketAt(wtx[w].mgr, CursorPath)} :
          /\ ~b.nil
          /\ \E r \in {BucketPut(wtx[w].mgr, b, k, v)} :
                /\ wtx' = [wtx EXCEPT ![w].mgr = r.m, ![w].ops = @ + 1]
                /\ ghost' = [ghost EXCEPT
                                !.pre = wtx[w].mgr,
                                !.caller = W(w),
                                !.cursor[k] = IF r.err THEN @ ELSE v,
                                !.last = Call("Put", CursorPath, k,
                                              IF r.err THEN "error" ELSE "")]
    /\ UNCHANGED <<status, data, mapLen, disk, dbMeta, dbMetaPage, dbPending,
                   readTxs, mu, rtx>>

\* Bucket.Put of a short key and an inline value of any length in the bucket
\* of the cursor scans.
FitPut(w, k, v) ==
    /\ status = "open"
    /\ wtx[w].state = "open"
    /\ wtx[w].ops <= MaxFitPuts
    /\ \E b \in {BucketAt(wtx[w].mgr, CursorPath)} :
          /\ ~b.nil
          /\ \E r \in {BucketPut(wtx[w].mgr, b, k, v)} :
                /\ wtx' = [wtx EXCEPT ![w].mgr = r.m, ![w].ops = @ + 1]
                /\ ghost' = [ghost EXCEPT
                                !.pre = wtx[w].mgr,
                                !.caller = W(w),
                                !.last = Call("Put", CursorPath, k,
                                              IF r.err THEN "error" ELSE "")]
    /\ UNCHANGED <<status, data, mapLen, disk, dbMeta, dbMetaPage, dbPending,
                   readTxs, mu, rtx>>

\* Bucket.Delete of a long key in the bucket of the cursor scans.
CursorDelete(w, k) ==
    /\ status = "open"
    /\ wtx[w].state = "open"
    /\ wtx[w].ops <= MaxTreeOps
    /\ \E b \in {BucketAt(wtx[w].mgr, CursorPath)} :
          /\ ~b.nil
          /\ \E r \in {BucketDelete(wtx[w].mgr, b, k)} :
                /\ wtx' = [wtx EXCEPT ![w].mgr = r.m, ![w].ops = @ + 1]
                /\ ghost' = [ghost EXCEPT
                                !.pre = wtx[w].mgr,
                                !.caller = W(w),
                                !.cursor[k] = IF r.err THEN @ ELSE <<>>,
                                !.last = Call("Delete", CursorPath, k,
                                              IF r.err THEN "error" ELSE "")]
    /\ UNCHANGED <<status, data, mapLen, disk, dbMeta, dbMetaPage, dbPending,
                   readTxs, mu, rtx>>

\* What the transaction is meant to read after the method op has returned
\* err.
AbsCall(view, op, p, k, v, err) ==
    IF err # "" \/ op = "NextSequence" THEN view
    ELSE IF op = "Put" THEN AbsPut(view, p, k, v)
    ELSE IF op = "Delete" THEN AbsDelete(view, p, k)
    ELSE IF op = "DeleteBucket" THEN AbsDeleteBucket(view, p)
    ELSE IF op = "CreateBucketIfNotExists" /\ view[p].exists THEN view
    ELSE AbsCreateBucket(view, p)

\* Any mutating method on the open write transaction of w, the names that
\* are empty included.
WriterCall(w, op, p, k, v) ==
    /\ CanStep(w)
    /\ \E r \in {ApiCall(TxRec(FALSE, TRUE, wtx[w].mgr), op, p, k, v)} :
          WriterStep(w, r.m, AbsCall(ghost.wabs[w], op, p, k, v, r.err),
                     Call(op, p, k, r.err))

\* A mutating method on the open read-only transaction of r.
ReaderCall(r, op, p, k, v) ==
    /\ status = "open"
    /\ rtx[r].state = "open"
    /\ \E c \in {ApiCall(TxRec(FALSE, FALSE, rtx[r].mgr), op, p, k, v)} :
          /\ rtx' = [rtx EXCEPT ![r].mgr = c.m]
          /\ ghost' = [ghost EXCEPT !.last = Call(op, p, k, c.err),
                                    !.caller = R(r), !.pre = rtx[r].mgr]
    /\ UNCHANGED <<status, data, mapLen, disk, dbMeta, dbMetaPage, dbPending,
                   readTxs, mu, wtx>>

\* What a call on a closed transaction returns: the error of a mutating
\* method, of Commit or of Rollback, "nil" for a lookup that returns nil.
closedCall(t, op, p, k, v, m, readers) ==
    IF op \in EndOps THEN TxEnd(t, op, m, readers)
    ELSE [mu |-> m, readTxs |-> readers,
          err |-> IF op = "Get"
                  THEN IF ApiGet(t, p, k) = <<>> THEN "nil" ELSE "value"
                  ELSE IF op = "Bucket"
                  THEN IF ApiBucket(t, p).nil THEN "nil" ELSE "value"
                  ELSE ApiCall(t, op, p, k, v).err]

LookupOps == {"Bucket", "Get"}
ClosedOps == ApiOps \cup EndOps \cup LookupOps

\* A call on the write transaction of w after its Commit or Rollback has
\* returned.
ClosedCall(w, op, p, k, v) ==
    /\ status = "open"
    /\ wtx[w].state = "none"
    /\ ghost.begun[w] # NotBegun
    /\ \E c \in {closedCall(TxRec(TRUE, TRUE, NoMgr), op, p, k, v, mu, readTxs)} :
          /\ mu' = c.mu
          /\ readTxs' = c.readTxs
          /\ ghost' = [ghost EXCEPT !.last = Call(op, p, k, c.err),
                                    !.caller = ClosedW(w), !.pre = NoMgr]
    /\ UNCHANGED <<status, data, mapLen, disk, dbMeta, dbMetaPage, dbPending,
                   wtx, rtx>>

\* The callback of DB.Read ends its read-only transaction with end (Commit
\* or Rollback) and then makes the call op on it; after the callback the
\* deferred Rollback of DB.Read runs on the closed transaction.
ReadEndThenCall(r, end, op, p, k, v) ==
    /\ status = "open"
    /\ rtx[r].state = "open"
    /\ \E e \in {TxEnd(TxRec(FALSE, FALSE, rtx[r].mgr), end, mu, readTxs)} :
       \E c \in {closedCall(TxRec(TRUE, FALSE, rtx[r].mgr), op, p, k, v,
                            e.mu, e.readTxs)} :
       \E d \in {TxEnd(TxRec(TRUE, FALSE, rtx[r].mgr), "Rollback",
                       c.mu, c.readTxs)} :
          /\ mu' = d.mu
          /\ readTxs' = d.readTxs
          /\ rtx' = [rtx EXCEPT ![r] = NoTx]
          /\ ghost' = [ghost EXCEPT !.rabs[r] = EmptyView,
                                    !.last = Call(op, p, k, c.err),
                                    !.caller = ClosedR(r), !.pre = rtx[r].mgr]
    /\ UNCHANGED <<status, data, mapLen, disk, dbMeta, dbMetaPage, dbPending,
                   wtx>>

\* Tx.close of a write transaction: db.mu.Unlock.
CloseWrite(w) ==
    /\ wtx' = [wtx EXCEPT ![w] = NoTx]
    /\ mu' = NoOwner

\* The write transaction of w has ended without a Commit that returned nil.
Dropped(w, how) ==
    ghost' = [ghost EXCEPT !.wabs[w] = EmptyView, !.result[w] = how]

\* The same, because a system call failed.
Failed(w) ==
    /\ ghost.faults < MaxFaults
    /\ ghost' = [ghost EXCEPT !.wabs[w] = EmptyView, !.faults = @ + 1,
                              !.result[w] = "error"]

\* Rollback that copies the dirty pages into the mapping.
RollbackFlushes(w) ==
    /\ status = "open"
    /\ wtx[w].state = "open"
    /\ data' = flushDirty(wtx[w].mgr)
    /\ CloseWrite(w)
    /\ Dropped(w, "rollback")
    /\ UNCHANGED <<status, mapLen, disk, dbMeta, dbMetaPage, dbPending,
                   readTxs, rtx>>

\* Tx.Rollback of a write transaction (also DB.Write whose callback fails):
\* txPageManager.rollback drops the dirty map and the pending frees, which
\* go away with the Tx.
Rollback(w) ==
    /\ status = "open"
    /\ wtx[w].state = "open"
    /\ CloseWrite(w)
    /\ Dropped(w, "rollback")
    /\ UNCHANGED <<status, data, mapLen, disk, dbMeta, dbMetaPage, dbPending,
                   readTxs, rtx>>

\* The same steps with a remap that does not take the mapping latch.
CommitFlushNoLatch(w) ==
    /\ status = "open"
    /\ wtx[w].state = "open"
    /\ mapLen' = Max(mapLen, requiredPages(wtx[w].mgr))
    /\ data' = flushDirty(wtx[w].mgr)
    /\ wtx' = [wtx EXCEPT ![w].state = "flushed"]
    /\ UNCHANGED <<status, disk, dbMeta, dbMetaPage, dbPending, readTxs, mu, rtx,
                   ghost>>

\* Tx.Commit, first steps of txPageManager.commit: ensureMapSize (Truncate
\* and remap under the exclusive mapping latch when the file must grow) and
\* flushDirty.
CommitFlush(w) ==
    /\ status = "open"
    /\ wtx[w].state = "open"
    /\ requiredPages(wtx[w].mgr) > mapLen => mapReaders = {}
    /\ mapLen' = Max(mapLen, requiredPages(wtx[w].mgr))
    /\ data' = flushDirty(wtx[w].mgr)
    /\ wtx' = [wtx EXCEPT ![w].state = "flushed"]
    /\ UNCHANGED <<status, disk, dbMeta, dbMetaPage, dbPending, readTxs, mu, rtx,
                   ghost>>

\* The first msync of txPageManager.commit.
CommitMsync(w) ==
    /\ status = "open"
    /\ wtx[w].state = "flushed"
    /\ disk' = msynced
    /\ wtx' = [wtx EXCEPT ![w].state = "synced"]
    /\ UNCHANGED <<status, data, mapLen, dbMeta, dbMetaPage, dbPending, readTxs,
                   mu, rtx, ghost>>

\* The process dies in the commit of w (an index out of range): the mapping
\* keeps what was copied into it.
Panic(w) ==
    /\ status' = "crashed"
    /\ wtx' = [x \in Writers |-> NoTx]
    /\ rtx' = [x \in Readers |-> NoTx]
    /\ mu' = NoOwner
    /\ ghost' = [ghost EXCEPT
                    !.wabs = [x \in Writers |-> EmptyView],
                    !.rabs = [x \in Readers |-> EmptyView],
                    !.allowed = {ghost.committed,
                                 Snap(wtx[w].mgr.root, ghost.wabs[w])},
                    !.recovered = [NotRecovered EXCEPT
                                      !.inCommit = TRUE,
                                      !.durable = (ghost.committed #
                                                     InitGhost.committed)]]

\* finalizeMeta up to persistFreelist: the reader table and the pending table
\* are read, the new freelist is laid out.  An error return ends Commit
\* (Tx.close); an index out of range ends the process.
CommitCollect(w) ==
    /\ status = "open"
    /\ wtx[w].state = "synced"
    /\ \E mr \in minReadTxID(readTxs) :
       \E f \in {finalizeCollect(wtx[w].mgr, mr)} :
          /\ f.m.nextPage <= MaxPage
          /\ IF f.panic
             THEN Panic(w)
             ELSE IF f.err
             THEN CloseWrite(w) /\ Dropped(w, "error") /\ UNCHANGED <<status, rtx>>
             ELSE /\ wtx' = [wtx EXCEPT ![w] =
                                WTx("collected", f.m, wtx[w].ops,
                                    [newMeta |-> f.newMeta,
                                     remaining |-> f.remaining,
                                     slot |-> f.slot, free |-> f.free])]
                  /\ UNCHANGED <<status, rtx, mu, ghost>>
    /\ UNCHANGED <<data, mapLen, disk, dbMeta, dbMetaPage, dbPending, readTxs>>

\* finalizeMeta under the meta latch: writeMetaPage into the slot that is not
\* live, then db.pending, db.meta and db.metaPage are replaced.
CommitPublish(w) ==
    /\ status = "open"
    /\ wtx[w].state = "collected"
    /\ data' = [data EXCEPT ![wtx[w].fin.slot] =
                   writeMetaPage(@, wtx[w].fin.newMeta, PageSize)]
    /\ dbPending' = wtx[w].fin.remaining
    /\ dbMeta' = wtx[w].fin.newMeta
    /\ dbMetaPage' = wtx[w].fin.slot
    /\ wtx' = [wtx EXCEPT ![w].state = "published"]
    /\ ghost' = [ghost EXCEPT
                    !.published = ghost.wabs[w],
                    !.free = [all   |-> wtx[w].fin.free,
                              chain |-> chainOf(wtx[w].mgr,
                                                wtx[w].fin.newMeta.freelistPage,
                                                MaxPage),
                              inline |-> wtx[w].fin.newMeta.freelist]]
    /\ UNCHANGED <<status, mapLen, disk, readTxs, mu, rtx>>

\* The rest of txPageManager.commit: msync, fdatasync; Commit returns nil
\* after Tx.close.
CommitSync(w) ==
    /\ status = "open"
    /\ wtx[w].state = "published"
    /\ disk' = msynced
    /\ CloseWrite(w)
    /\ ghost' = [ghost EXCEPT !.committed = Snap(dbMeta.root, ghost.wabs[w]),
                              !.wabs[w] = EmptyView, !.result[w] = "nil"]
    /\ UNCHANGED <<status, data, mapLen, dbMeta, dbMetaPage, dbPending, readTxs, rtx>>

----------------------------------------------------------------------------
(* Failing system calls in the commit pipeline. *)

\* ensureMapSize: the file must grow and Truncate fails; Commit returns the
\* error after Tx.close.
CommitFailGrow(w) ==
    /\ status = "open"
    /\ wtx[w].state = "open"
    /\ requiredPages(wtx[w].mgr) > mapLen
    /\ CloseWrite(w)
    /\ Failed(w)
    /\ UNCHANGED <<status, data, mapLen, disk, dbMeta, dbMetaPage, dbPending,
                   readTxs, rtx>>

\* The first msync fails, after flushDirty.
CommitFailMsync(w) ==
    /\ status = "open"
    /\ wtx[w].state = "flushed"
    /\ CloseWrite(w)
    /\ Failed(w)
    /\ UNCHANGED <<status, data, mapLen, disk, dbMeta, dbMetaPage, dbPending,
                   readTxs, rtx>>

\* The second msync or fdatasync fails, after finalizeMeta has returned nil:
\* the device holds all, or none, of what the mapping holds.
CommitFailSync(w) ==
    /\ status = "open"
    /\ wtx[w].state = "published"
    /\ disk' \in {disk, msynced}
    /\ CloseWrite(w)
    /\ Failed(w)
    /\ UNCHANGED <<status, data, mapLen, dbMeta, dbMetaPage, dbPending, readTxs, rtx>>

\* Commit of w returns an error in this step.
CommitFails(w) ==
    \/ CommitFailGrow(w)
    \/ CommitFailMsync(w)
    \/ CommitFailSync(w)
    \/ CommitCollect(w) /\ ghost'.result[w] = "error" /\ wtx'[w].state = "none"

----------------------------------------------------------------------------
(* Close, Open, power loss. *)

\* The state of a process that holds no DB.
Forget ==
    /\ dbPending' = <<>>
    /\ readTxs' = [t \in TxIDs |-> 0]
    /\ mu' = NoOwner
    /\ wtx' = [w \in Writers |-> NoTx]
    /\ rtx' = [r \in Readers |-> NoTx]

\* DB.Close with no transaction in flight: db.mu, the exclusive mapping
\* latch, Msync, Munmap, file.Close.
Close ==
    /\ status = "open"
    /\ mu = NoOwner
    /\ mapReaders = {}
    /\ status' = "closed"
    /\ disk' = msynced
    /\ Forget
    /\ ghost' = [ghost EXCEPT !.allowed = {ghost.committed},
                              !.recovered = NotRecovered]
    /\ UNCHANGED <<data, mapLen, dbMeta, dbMetaPage>>

\* What Open shows to the transactions that follow: the contents under the
\* meta it loaded.
Loaded(l) ==
    IF l.err THEN Snap(0, EmptyView)
    ELSE Snap(l.m.root, View(newTxPageManager(FALSE, l.m)))

\* Open on the existing file: mapFile, loadExisting.
Open ==
    /\ status \in {"closed", "crashed"}
    /\ \E l \in {loadExisting(data, mapLen)} :
       \E v \in {Loaded(l)} :
          /\ status' = IF l.err THEN "failed" ELSE "open"
          /\ dbMeta' = IF l.err THEN EmptyMeta ELSE l.m
          /\ dbMetaPage' = l.slot
          /\ ghost' = [ghost EXCEPT
                          !.recovered = [after |-> status, ok |-> ~l.err,
                                         snap |-> v,
                                         inCommit |-> ghost.recovered.inCommit,
                                         durable |-> ghost.recovered.durable,
                                         free |-> IF l.err THEN <<>>
                                                  ELSE l.m.freelist,
                                         left |-> ghost.free],
                          !.published = v.view, !.committed = v]
    /\ Forget
    /\ UNCHANGED <<data, mapLen, disk>>

\* Pages of the mapping whose latest content has not reached the device.
Unsynced == { id \in 0..(mapLen - 1) : data[id] # disk[id] }

\* The content of a meta slot on the device when the page is written back
\* while, or the process dies before, writeMetaPage has stored all fields.
TornMeta(old, new) ==
    { writeMetaPrefix(old, Meta(new.txid, new.root, new.nextPage,
                                new.freelistPage, SubSeq(new.ids, 1, new.count)),
                      new.pageSize, n) : n \in 0..(7 + new.count) }

\* What of a meta slot can be on the device after a power loss.
OnDevice(id) ==
    IF id \notin Unsynced THEN {disk[id]} ELSE TornMeta(disk[id], data[id])

\* Power loss: of the pages not yet synced any may have reached the device, a
\* meta slot possibly in part.  The mapping of the next process shows the
\* device.
Crash ==
    /\ status = "open"
    /\ \E S \in SUBSET (Unsynced \ {metaPage0, metaPage1}) :
       \E t0 \in OnDevice(metaPage0) :
       \E t1 \in OnDevice(metaPage1) :
          disk' = [id \in PageIds |->
                      IF id = metaPage0 THEN t0
                      ELSE IF id = metaPage1 THEN t1
                      ELSE IF id \in S THEN data[id] ELSE disk[id]]
    /\ data' = disk'
    /\ status' = "crashed"
    /\ Forget
    /\ ghost' = [ghost EXCEPT
                    !.wabs = [x \in Writers |-> EmptyView],
                    !.rabs = [x \in Readers |-> EmptyView],
                    !.allowed = {ghost.committed} \cup
                                { Snap(wtx[w].mgr.root, ghost.wabs[w]) :
                                    w \in InCommit },
                    !.recovered = [NotRecovered EXCEPT
                                      !.inCommit = (InCommit # {}),
                                      !.durable = (ghost.committed #
                                                     InitGhost.committed)]]
    /\ UNCHANGED <<mapLen, dbMeta, dbMetaPage>>

----------------------------------------------------------------------------
(* Specifications. *)

WriterOps ==
    \E w \in Writers :
        \/ BeginWrite(w)
        \/ \E p \in Paths :
              \/ \E k \in Keys : \E v \in Vals : Put(w, p, k, v)
              \/ \E k \in Keys : Delete(w, p, k)
              \/ CreateBucket(w, p)
              \/ DeleteBucket(w, p)
        \/ Rollback(w)
        \/ CommitFlush(w)
        \/ CommitMsync(w)
        \/ CommitCollect(w)
        \/ CommitPublish(w)
        \/ CommitSync(w)

ReaderOps ==
    \E r \in Readers :
        \/ BeginReadSnapshot(r)
        \/ BeginReadRegister(r)
        \/ ReadClose(r)

Next == WriterOps \/ ReaderOps \/ Close \/ Open

\* Transactions, Close and Open, with every system call succeeding.
Spec == Init /\ [][Next]_vars

Faults ==
    \E w \in Writers :
        \/ CommitFailGrow(w)
        \/ CommitFailMsync(w)
        \/ CommitFailSync(w)

NextFault == WriterOps \/ Faults

\* Write transactions, with system calls of the commit pipeline that may fail.
SpecFault == Init /\ [][NextFault]_vars

\* An Open has followed a power loss or the death of the process.
Recovered == ghost.recovered.after = "crashed"

NextCrash ==
    \/ \E w \in Writers :
          \/ ~Recovered /\ BeginWrite(w)
          \/ \E p \in Paths :
                \/ \E k \in Keys : \E v \in Vals : ~Recovered /\ Put(w, p, k, v)
                \/ \E k \in Keys : ~Recovered /\ Delete(w, p, k)
                \/ ~Recovered /\ CreateBucket(w, p)
                \/ ~Recovered /\ DeleteBucket(w, p)
          \/ ~Recovered /\ Rollback(w)
          \/ ~Recovered /\ CommitFlush(w)
          \/ ~Recovered /\ CommitMsync(w)
          \/ ~Recovered /\ CommitCollect(w)
          \/ ~Recovered /\ CommitPublish(w)
          \/ ~Recovered /\ CommitSync(w)
    \/ ~Recovered /\ Close
    \/ ~Recovered /\ Open
    \/ Crash

\* Write transactions, Close and Open, with one power loss or death of the
\* process, up to the Open that follows it.
SpecCrash == Init /\ [][NextCrash]_vars

\* The keys and values a call of op takes: none where the method has no such
\* parameter, and one value for Put.
KeyArgs(op) == IF op \in KeyOps \cup {"Get"} THEN Keys ELSE {<<>>}
ValArgs(op) == IF op = "Put" THEN {<<1>>} ELSE {<<>>}

\* Write transactions that make every mutating call of the interface, on
\* names that are there, that are missing and that are empty.
NextApi ==
    \E w \in Writers :
        \/ BeginWrite(w)
        \/ \E op \in ApiOps, p \in CallPaths :
           \E k \in KeyArgs(op), v \in ValArgs(op) : WriterCall(w, op, p, k, v)
        \/ Rollback(w)
        \/ CommitFlush(w)
        \/ CommitMsync(w)
        \/ CommitCollect(w)
        \/ CommitPublish(w)
        \/ CommitSync(w)

SpecApi == Init /\ [][NextApi]_vars

\* A call has been made on a read-only or on a closed transaction.
Misused == ghost.caller[1] \in {"r", "cw", "cr"}

\* The arguments of such a call: a path of Paths where the method takes one,
\* the first key where it takes one.
MisusePaths(op) == IF op \in EndOps THEN {<<>>} ELSE Paths
MisuseKeys(op) == IF op \in KeyOps \cup {"Get"} THEN {<<1>>} ELSE {<<>>}

\* Write and read-only transactions, up to the first call of a mutating
\* method on a read-only transaction or of any method on a closed one.
NextMisuse ==
    \/ \E w \in Writers :
          \/ ~Misused /\ BeginWrite(w)
          \/ \E p \in Paths :
                \/ ~Misused /\ CreateBucket(w, p)
                \/ \E k \in Keys, v \in ValArgs("Put") :
                      ~Misused /\ Put(w, p, k, v)
          \/ ~Misused /\ Rollback(w)
          \/ ~Misused /\ CommitFlush(w)
          \/ ~Misused /\ CommitMsync(w)
          \/ ~Misused /\ CommitCollect(w)
          \/ ~Misused /\ CommitPublish(w)
          \/ ~Misused /\ CommitSync(w)
          \/ \E op \in ClosedOps :
             \E p \in MisusePaths(op), k \in MisuseKeys(op), v \in ValArgs(op) :
                ~Misused /\ ClosedCall(w, op, p, k, v)
    \/ \E r \in Readers :
          \/ ~Misused /\ BeginReadSnapshot(r)
          \/ ~Misused /\ BeginReadRegister(r)
          \/ ~Misused /\ ReadClose(r)
          \/ \E op \in ApiOps :
             \E p \in MisusePaths(op), k \in MisuseKeys(op), v \in ValArgs(op) :
                ~Misused /\ ReaderCall(r, op, p, k, v)
          \/ \E end \in EndOps, op \in ClosedOps :
             \E p \in MisusePaths(op), k \in MisuseKeys(op), v \in ValArgs(op) :
                ~Misused /\ ReadEndThenCall(r, end, op, p, k, v)

SpecMisuse == Init /\ [][NextMisuse]_vars

\* The meta slots a file can hold when it is opened: magic right or wrong,
\* page size right or wrong, any transaction id, a root or none, no
\* freelist.
MetaSlots ==
    { MetaPageRec(kind, ps, txid, root, 3, 0, 0, ZeroIds) :
        kind \in {magicByte, 0}, ps \in {PageSize, 0}, txid \in 0..MaxTxid,
        root \in {0, 2} }

\* A file of three pages, closed, with any two meta slots.
InitMeta ==
    /\ status = "closed"
    /\ \E s0 \in MetaSlots, s1 \in MetaSlots :
          data = [id \in PageIds |->
                     IF id = metaPage0 THEN s0
                     ELSE IF id = metaPage1 THEN s1
                     ELSE IF id = 2 THEN LeafPage(<<>>, <<>>, 0)
                     ELSE ZeroPage]
    /\ disk = data
    /\ mapLen = 3
    /\ dbMeta = EmptyMeta
    /\ dbMetaPage = metaPage0
    /\ dbPending = <<>>
    /\ readTxs = [t \in TxIDs |-> 0]
    /\ mu = NoOwner
    /\ wtx = [w \in Writers |-> NoTx]
    /\ rtx = [r \in Readers |-> NoTx]
    /\ ghost = InitGhost

\* Open on such a file.
SpecMeta == InitMeta /\ [][Open]_vars

\* One write transaction that creates the bucket and puts long keys in it.
NextCursor ==
    \E w \in Writers :
        \/ BeginWrite(w)
        \/ CreateBucket(w, CursorPath)
        \/ \E k \in CursorKeys, v \in Vals : CursorPut(w, k, v)

SpecCursor == Init /\ [][NextCursor]_vars

\* Large values and keys: write transactions that put values of any size
\* under short keys and under the long key into one bucket, delete them, and
\* commit.
NextOverflow ==
    \E w \in Writers :
        \/ BeginWrite(w)
        \/ CreateBucket(w, CursorPath)
        \/ \E k \in Keys \cup {LongKey}, v \in OverflowVals \cup {<<1>>} :
              Put(w, CursorPath, k, v)
        \/ \E k \in Keys : Delete(w, CursorPath, k)
        \/ CommitFlush(w)
        \/ CommitMsync(w)
        \/ CommitCollect(w)
        \/ CommitPublish(w)
        \/ CommitSync(w)

SpecOverflow == Init /\ [][NextOverflow]_vars

----------------------------------------------------------------------------
(* Pages reachable from a root, and the freelists. *)

RECURSIVE treePages(_, _, _)
\* The pages of the tree rooted at root, as findLeaf and freeTree walk it.
treePages(m, root, fuel) ==
    IF root = 0 \/ fuel = 0 THEN {}
    ELSE With(readNode(m, root), LAMBDA r :
             IF r.err \/ r.node.isLeaf THEN {root}
             ELSE {root} \cup UNION { treePages(m, r.node.children[i], fuel - 1) :
                                        i \in DOMAIN r.node.children })

RECURSIVE treeValues(_, _, _)
\* The values held by the leaves of the tree rooted at root.
treeValues(m, root, fuel) ==
    IF root = 0 \/ fuel = 0 THEN {}
    ELSE With(readNode(m, root), LAMBDA r :
             IF r.err THEN {}
             ELSE IF r.node.isLeaf THEN SeqToSet(r.node.values)
             ELSE UNION { treeValues(m, r.node.children[i], fuel - 1) :
                            i \in DOMAIN r.node.children })

RECURSIVE indexPages(_, _, _)
\* The pages of a bucket index tree, of the headers it names, and of their
\* key/value trees and nested indexes.
indexPages(m, indexRoot, depth) ==
    treePages(m, indexRoot, MaxPage) \cup
    UNION { With(readBucketHeader(m, decodePageID(v)), LAMBDA h :
                IF h.err \/ depth = 0 THEN {decodePageID(v)}
                ELSE {decodePageID(v)} \cup treePages(m, h.kvRoot, MaxPage)
                       \cup indexPages(m, h.bucketRoot, depth - 1)) :
            v \in treeValues(m, indexRoot, MaxPage) }

\* Every page a transaction with manager m can reach from its root.
Reach(m) == indexPages(m, m.root, MaxDepth)

\* Every page reachable from the bucket of handle b: its header, the nodes
\* of its key/value tree and of its index tree, and the same of the buckets
\* nested in it.
bucketPages(m, b) ==
    {b.header} \cup treePages(m, b.kvRoot, MaxPage)
        \cup indexPages(m, b.bucketRoot, MaxDepth)

\* The live inline freelist, the ids stored in the live overflow chain, and
\* the working freelist of every open write transaction.
FreeSet ==
    SeqToSet(dbMeta.freelist)
    \cup With(readFreelistChain(data, mapLen, dbMeta.freelistPage, MaxPage),
              LAMBDA c : IF c.err \/ c.panic THEN {} ELSE SeqToSet(c.ids))
    \cup UNION { SeqToSet(wtx[w].mgr.freelist) :
                   w \in { x \in Writers : wtx[x].state # "none" } }

\* Bucket.Get on the live contents.
LiveGet(p, k) == BucketGet(live, BucketAt(live, p), k)

----------------------------------------------------------------------------
(* Properties. *)

\* C1: snapshot isolation.  Every lookup and Get an open read-only
\* transaction can make returns what was committed when it took its
\* snapshot, whatever write transactions commit or roll back meanwhile and
\* however the two steps of its begin interleave with a commit.
SnapshotIsolation ==
    status = "open" =>
        \A r \in Readers :
            rtx[r].state = "open" => View(rtx[r].mgr) = ghost.rabs[r]

\* C2: freelist-reuse safety.  While a read-only transaction is open,
\* registered or between its snapshot and its registration, no page
\* reachable from its snapshot root is on the live inline freelist, in the
\* live overflow chain or on the working freelist of the writer.
ReuseSafety ==
    status = "open" =>
        \A r \in Readers :
            rtx[r].state \in {"snap", "open"} =>
                Reach(rtx[r].mgr) \cap FreeSet = {}

\* C3: crash consistency.  After a power loss or a process death during
\* Commit, partially written meta page included, Open succeeds and yields
\* the root and contents of the state before the transaction or of the state
\* after it, never a mix.
CrashConsistency ==
    (ghost.recovered.after = "crashed" /\ ghost.recovered.inCommit) =>
        ghost.recovered.ok /\ ghost.recovered.snap \in ghost.allowed

\* C4: a Commit that returns an error, from whichever step of the pipeline,
\* leaves the live meta, the live meta page number and the pending table as
\* they were when the transaction began, and a Read begun afterwards sees the
\* contents from before the transaction.
FailedCommitFrame ==
    \A w \in Writers :
        (status = "open" /\ ghost.result[w] = "error") =>
            /\ dbMeta = ghost.begun[w].meta
            /\ dbPending = ghost.begun[w].pending
            /\ View(live) = ghost.begun[w].view

\* C5: durability.  Once Commit has returned nil, the Open that follows any
\* later crash succeeds and finds the contents of that transaction or of a
\* transaction that was committing when the crash happened.
Durability ==
    (ghost.recovered.after = "crashed" /\ ghost.recovered.durable) =>
        /\ ghost.recovered.ok
        /\ ghost.recovered.snap.view \in { a.view : a \in ghost.allowed }

\* C6: the last Put wins.  Within one write transaction the last Put of a
\* key decides its value, and Get on the live contents returns for every key
\* the value of the latest published transaction that put it.
LastPutWins ==
    /\ \A w \in Writers :
          wtx[w].state = "open" =>
              \A p \in Paths, k \in Keys :
                  ghost.wabs[w][p].exists /\ ghost.wabs[w][p].kv[k] # <<>> =>
                      BucketGet(wtx[w].mgr, BucketAt(wtx[w].mgr, p), k) =
                          ghost.wabs[w][p].kv[k]
    /\ status = "open" =>
          \A p \in Paths, k \in Keys :
              ghost.published[p].exists /\ ghost.published[p].kv[k] # <<>> =>
                  LiveGet(p, k) = ghost.published[p].kv[k]

\* A published transaction has replaced the committed value of a key.
LastPutWinsWitness ==
    /\ status = "open"
    /\ \E w \in Writers, p \in Paths, k \in Keys :
          /\ wtx[w].state = "published"
          /\ ghost.committed.view[p].exists
          /\ ghost.committed.view[p].kv[k] # <<>>
          /\ ghost.published[p].exists
          /\ ghost.published[p].kv[k] \notin {<<>>, ghost.committed.view[p].kv[k]}
          /\ LiveGet(p, k) = ghost.published[p].kv[k]

\* C7: Delete.  Delete of a key returns no error, present or not; afterwards
\* the transaction reads nil for the key and every other key and bucket as
\* before; once the transaction is published, Get on the live contents
\* returns nil for the key.
DeleteTakesEffect ==
    /\ \A w \in Writers :
          (wtx[w].state = "open" /\ ghost.last.op = "Delete") =>
              /\ ghost.last.err = ""
              /\ ghost.wabs[w][ghost.last.path].kv[ghost.last.key] = <<>>
              /\ View(wtx[w].mgr) = ghost.wabs[w]
    /\ status = "open" =>
          \A p \in Paths, k \in Keys :
              ghost.published[p].exists /\ ghost.published[p].kv[k] = <<>> =>
                  LiveGet(p, k) = <<>>

\* A transaction that ended with the Delete of a committed key is published
\* and the key is gone from the live contents.
DeleteTakesEffectWitness ==
    /\ status = "open"
    /\ ghost.last.op = "Delete"
    /\ \E w \in Writers :
          /\ wtx[w].state = "published"
          /\ ghost.committed.view[ghost.last.path].kv[ghost.last.key] # <<>>
          /\ ghost.published[ghost.last.path].exists
          /\ ghost.published[ghost.last.path].kv[ghost.last.key] = <<>>
          /\ LiveGet(ghost.last.path, ghost.last.key) = <<>>

\* C8: persistence.  After Close, the next Open succeeds and finds the root
\* and the contents, nested buckets included, of the last committed
\* transaction, and nothing of a transaction that was rolled back.
PersistAcrossReopen ==
    ghost.recovered.after = "closed" =>
        ghost.recovered.ok /\ ghost.recovered.snap \in ghost.allowed

\* C9: Rollback of a write transaction leaves the live meta, the pending
\* table and every mapped byte unchanged, releases the writer latch, and the
\* live contents stay those the transaction began from.
RollbackFrame ==
    [][\A w \in Writers :
          (wtx[w].state = "open" /\ ghost'.result[w] = "rollback") =>
              /\ UNCHANGED <<dbMeta, dbMetaPage, dbPending, data, mapLen, disk>>
              /\ mu = w /\ mu' = NoOwner
              /\ wtx'[w].state = "none"
              /\ ghost'.published = ghost.published
              /\ View(live) = ghost.begun[w].view]_vars

\* A write transaction that had changed its own contents was rolled back.
RollbackFrameWitness ==
    \E w \in Writers :
        /\ ghost.result[w] = "rollback"
        /\ wtx[w].state = "none"
        /\ mu = NoOwner
        /\ ghost.begun[w].view # EmptyView
        /\ View(live) = ghost.begun[w].view

\* C10: single writer.  At most one write transaction is open at a time; it
\* holds the writer latch from its begin until its commit pipeline or its
\* rollback has finished, and the latch is held by no one else.
SingleWriter ==
    /\ Cardinality({ w \in Writers : wtx[w].state # "none" }) <= 1
    /\ \A w \in Writers : wtx[w].state # "none" => mu = w
    /\ mu # NoOwner => mu \in Writers /\ wtx[mu].state # "none"

\* One writer is inside the commit pipeline, holding the latch, after the
\* other has committed.
SingleWriterWitness ==
    \E w \in Writers, x \in Writers :
        /\ w # x
        /\ wtx[w].state = "published"
        /\ mu = w
        /\ wtx[x].state = "none"
        /\ ghost.begun[x].meta.txid + 1 = ghost.begun[w].meta.txid

----------------------------------------------------------------------------
(* Writers and open readers. *)

\* C11: a write transaction commits without waiting for readers.  Whenever a
\* write transaction is open, its commit can take its first step (flush, with
\* the growth and remap of the file when the transaction needs more pages
\* than are mapped) whether or not read-only transactions are open.
CommitNeverWaitsForReaders ==
    \A w \in Writers :
        (status = "open" /\ wtx[w].state = "open") => ENABLED CommitFlush(w)

----------------------------------------------------------------------------
(* Cursor scans. *)

\* The pairs a scan is meant to visit: the keys put so far, ascending, each
\* with the value of its last Put.
CursorExpected ==
    SelectSeq([i \in 1..NumCursorKeys |->
                  <<CursorKey(i), ghost.cursor[CursorKey(i)]>>],
              LAMBDA e : e[2] # <<>>)

\* C12: cursor iteration.  In an open write transaction, after any sequence
\* of Puts into a bucket (leaf splits included), First followed by Next
\* until nil visits every key of the bucket exactly once, in ascending
\* order, each with its current value.
CursorVisitsAll ==
    \A w \in Writers :
        (status = "open" /\ wtx[w].state = "open") =>
            \A b \in {BucketAt(wtx[w].mgr, CursorPath)} :
                ~b.nil => CursorScan(wtx[w].mgr, b) = CursorExpected

----------------------------------------------------------------------------
(* Nested buckets. *)

\* The bucket whose kv_root or bucket_root a successful call changes: the
\* bucket itself for Put and Delete, the parent for CreateBucket and
\* DeleteBucket (<<>> when the parent is the root index of the meta).
Mutated(call) ==
    IF call.op \in {"Put", "Delete"} THEN call.path
    ELSE SubSeq(call.path, 1, Len(call.path) - 1)

\* id was handed out by AllocPage in a call that began with manager pre.
Fresh(pre, id) == id >= pre.nextPage \/ id \in SeqToSet(pre.freelist)

\* C13: nested buckets.  A successful mutation of a bucket at any depth
\* leaves the header of that bucket and of every ancestor on a page
\* allocated by the call, found through the ancestors' indexes from a root
\* index page allocated by the call; and once the transaction is published,
\* tx.Bucket(parent).Bucket(child).Get(k) returns the value put.
NestedPutVisible ==
    /\ \A w \in Writers :
          (wtx[w].state = "open" /\ ghost.last.op # "none" /\ ghost.last.err = "")
          => /\ Fresh(ghost.pre, wtx[w].mgr.root)
             /\ wtx[w].mgr.root \in DOMAIN wtx[w].mgr.dirty
             /\ \A n \in 1..Len(Mutated(ghost.last)) :
                   \A b \in {BucketAt(wtx[w].mgr,
                                      SubSeq(Mutated(ghost.last), 1, n))} :
                       /\ ~b.nil
                       /\ Fresh(ghost.pre, b.header)
                       /\ b.header \in DOMAIN wtx[w].mgr.dirty
                       /\ readBucketHeader(wtx[w].mgr, b.header).kvRoot = b.kvRoot
    /\ status = "open" =>
          \A p \in Paths, k \in Keys :
              (Len(p) > 1 /\ ghost.published[p].exists
                 /\ ghost.published[p].kv[k] # <<>>)
              => LiveGet(p, k) = ghost.published[p].kv[k]

\* A transaction whose last call was a Put into a bucket inside a bucket of
\* an earlier transaction is published, and the value is read through the
\* two lookups.
NestedPutVisibleWitness ==
    /\ status = "open"
    /\ ghost.last.op = "Put"
    /\ ghost.last.err = ""
    /\ Len(ghost.last.path) = 2
    /\ \E w \in Writers :
          /\ wtx[w].state = "published"
          /\ ghost.committed.view[ghost.last.path].exists
          /\ ghost.committed.view[ghost.last.path].kv[ghost.last.key] = <<>>
          /\ LiveGet(ghost.last.path, ghost.last.key) # <<>>
          /\ LiveGet(ghost.last.path, ghost.last.key) =
                 ghost.published[ghost.last.path].kv[ghost.last.key]

----------------------------------------------------------------------------
(* Calls on read-only and on closed transactions. *)

\* The method op has something to be called on: Tx for the bucket methods on
\* a path of length one, a handle that a lookup returned otherwise.
HasReceiver(m, op, p) ==
    IF op \in BucketOps THEN Len(p) = 1 \/ ~ParentAt(m, p).nil
    ELSE ~BucketAt(m, p).nil

\* C14: read-only transactions.  A mutating method called on a read-only
\* transaction (for CreateBucketIfNotExists: on a name that is missing)
\* returns ErrTxReadOnly, and the call changes neither what the transaction
\* holds nor anything of the database.
ReadOnlyRejected ==
    [][\A r \in Readers :
          ghost'.caller = R(r) =>
              /\ (/\ HasReceiver(rtx[r].mgr, ghost'.last.op, ghost'.last.path)
                  /\ \/ ghost'.last.op # "CreateBucketIfNotExists"
                     \/ BucketAt(rtx[r].mgr, ghost'.last.path).nil)
                 => ghost'.last.err = "readonly"
              /\ rtx' = rtx
              /\ UNCHANGED <<status, data, mapLen, disk, dbMeta, dbMetaPage,
                             dbPending, readTxs, mu, wtx>>]_vars

\* Put was called on the handle of a bucket in a read-only transaction that
\* reads a value under the key, and returned ErrTxReadOnly.
ReadOnlyRejectedWitness ==
    \E r \in Readers :
        /\ ghost.caller = R(r)
        /\ ghost.last.op = "Put"
        /\ ghost.last.err = "readonly"
        /\ rtx[r].state = "open"
        /\ rtx[r].mgr = ghost.pre
        /\ BucketGet(rtx[r].mgr, BucketAt(rtx[r].mgr, ghost.last.path),
                     ghost.last.key) # <<>>

\* C15: closed transactions.  A write transaction whose Commit or Rollback
\* has returned is closed; on a closed transaction every mutating method
\* and Commit return ErrTxClosed, lookups return nil and Rollback returns
\* without an error; the writer latch is held exactly while a write
\* transaction is open, and the reader table counts exactly the read-only
\* transactions that are open.
ClosedIsTerminal ==
    /\ \A w \in Writers : ghost.result[w] # "none" => wtx[w].state = "none"
    /\ ghost.caller[1] \in {"cw", "cr"} =>
          /\ ghost.last.op \in ApiOps \cup {"Commit"} => ghost.last.err = "closed"
          /\ ghost.last.op \in LookupOps => ghost.last.err = "nil"
          /\ ghost.last.op = "Rollback" => ghost.last.err = ""
    /\ \A w \in Writers : wtx[w].state # "none" <=> mu = w
    /\ \A t \in DOMAIN readTxs :
          readTxs[t] = Cardinality({ r \in Readers : /\ rtx[r].state = "open"
                                                     /\ rtx[r].mgr.txid = t })

\* Rollback was called on the closed write transaction of one writer while
\* the other holds the latch in its own open transaction.
ClosedIsTerminalWitness ==
    \E w \in Writers, x \in Writers :
        /\ ghost.caller = ClosedW(w)
        /\ ghost.last.op = "Rollback"
        /\ wtx[w].state = "none"
        /\ wtx[x].state = "open"
        /\ mu = x

----------------------------------------------------------------------------
(* Bucket names that are there, missing or empty. *)

\* The last name of path p is in the index the call looks it up in: the root
\* index of the transaction, or the index of the parent handle.
Present(m, p) ==
    IF Len(p) = 1 THEN get(m, m.root, p[1]).ok
    ELSE \E b \in {ParentAt(m, p)} :
            ~b.nil /\ get(m, b.bucketRoot, p[Len(p)]).ok

\* The latest call was op, made by the open write transaction of w.
Called(w, ops) ==
    /\ status = "open"
    /\ wtx[w].state = "open"
    /\ ghost.caller = W(w)
    /\ ghost.last.op \in ops
    /\ HasReceiver(ghost.pre, ghost.last.op, ghost.last.path)

\* C16: bucket names that exist.  CreateBucket (of Tx or of a handle) with
\* a name that is in the parent's index returns ErrBucketExists and leaves
\* the transaction as it was; CreateBucketIfNotExists with such a name
\* returns no error and the handle of the bucket that was there, with
\* everything the transaction holds as it was.
CreateExistingRejected ==
    \A w \in Writers :
        /\ (Called(w, {"CreateBucket"}) /\ Present(ghost.pre, ghost.last.path))
           => /\ ghost.last.err = "exists"
              /\ wtx[w].mgr = ghost.pre
        /\ (Called(w, {"CreateBucketIfNotExists"})
              /\ Present(ghost.pre, ghost.last.path))
           => /\ ghost.last.err = ""
              /\ wtx[w].mgr = ghost.pre
              /\ ~BucketAt(wtx[w].mgr, ghost.last.path).nil
              /\ BucketAt(wtx[w].mgr, ghost.last.path)
                     = BucketAt(ghost.pre, ghost.last.path)
              /\ View(wtx[w].mgr) = ghost.wabs[w]

\* CreateBucketIfNotExists was called on the name of a bucket that holds a
\* key and a child bucket, and CreateBucket on a name that is there.
CreateExistingRejectedWitness ==
    \E w \in Writers :
        /\ Called(w, {"CreateBucketIfNotExists"})
        /\ Present(ghost.pre, ghost.last.path)
        /\ Len(ghost.last.path) = 1
        /\ ghost.last.err = ""
        /\ \E k \in Keys : ghost.wabs[w][ghost.last.path].kv[k] # <<>>
        /\ \E q \in Paths :
              /\ Len(q) = 2
              /\ IsPrefix(ghost.last.path, q)
              /\ ~BucketAt(wtx[w].mgr, q).nil

\* C17: bucket names that are missing or empty.  DeleteBucket (of Tx or of
\* a handle) with a name that is not in the parent's index returns
\* ErrBucketNotFound; CreateBucket, CreateBucketIfNotExists and DeleteBucket
\* with an empty name return the name-required error; in both cases the
\* transaction is left as it was: no page freed, the indexes and the root as
\* before.
MissingOrEmptyRejected ==
    \A w \in Writers :
        /\ (Called(w, {"DeleteBucket"})
              /\ Len(ghost.last.path[Len(ghost.last.path)]) > 0
              /\ ~Present(ghost.pre, ghost.last.path))
           => /\ ghost.last.err = "notfound"
              /\ wtx[w].mgr = ghost.pre
        /\ (Called(w, BucketOps)
              /\ Len(ghost.last.path[Len(ghost.last.path)]) = 0)
           => /\ ghost.last.err = "name"
              /\ wtx[w].mgr = ghost.pre

\* DeleteBucket of a missing name inside a bucket was rejected in a
\* transaction that had freed pages before.
MissingOrEmptyRejectedWitness ==
    \E w \in Writers :
        /\ Called(w, {"DeleteBucket"})
        /\ Len(ghost.last.path) = 2
        /\ ghost.last.err = "notfound"
        /\ wtx[w].mgr.pending # <<>>
        /\ wtx[w].mgr = ghost.pre

----------------------------------------------------------------------------
(* Deleting buckets. *)

\* C18: DeleteBucket frees the bucket.  After a successful DeleteBucket the
\* lookup of the name returns nil, and every page that was reachable from
\* the deleted bucket (header, key/value tree, index tree, nested buckets)
\* is in the pending-free list of the transaction.
DeleteBucketFreesAll ==
    \A w \in Writers :
        (/\ status = "open"
         /\ wtx[w].state = "open"
         /\ ghost.caller = W(w)
         /\ ghost.last.op = "DeleteBucket"
         /\ ghost.last.err = "")
        => /\ BucketAt(wtx[w].mgr, ghost.last.path).nil
           /\ \A b \in {BucketAt(ghost.pre, ghost.last.path)} :
                 ~b.nil => bucketPages(ghost.pre, b)
                               \subseteq SeqToSet(wtx[w].mgr.pending)

----------------------------------------------------------------------------
(* The choice of the live meta. *)

\* The slot has the magic byte; it is valid when the page size and the count
\* of inline ids are right as well.
HasMagic(slot) == data[slot].kind = magicByte
ValidSlot(slot) ==
    /\ HasMagic(slot)
    /\ data[slot].pageSize = PageSize
    /\ data[slot].count <= metaInlineFreeCapacity(PageSize)

\* Open took the meta of slot.
Picked(slot) ==
    /\ status = "open"
    /\ dbMetaPage = slot
    /\ dbMeta.txid = data[slot].txid
    /\ dbMeta.root = data[slot].root

\* C19: meta selection.  After Open on a file with two valid meta pages the
\* live meta is the one with the higher transaction id (the first when they
\* are equal); with one page without the magic byte and the other valid it
\* is the other; with no magic byte on either page Open fails.
MetaSelection ==
    status \in {"open", "failed"} =>
        /\ (ValidSlot(metaPage0) /\ ValidSlot(metaPage1))
           => Picked(IF data[metaPage1].txid > data[metaPage0].txid
                     THEN metaPage1 ELSE metaPage0)
        /\ (~HasMagic(metaPage0) /\ ValidSlot(metaPage1)) => Picked(metaPage1)
        /\ (~HasMagic(metaPage1) /\ ValidSlot(metaPage0)) => Picked(metaPage0)
        /\ (~HasMagic(metaPage0) /\ ~HasMagic(metaPage1)) => status = "failed"

\* Open took the second slot of two valid ones, the one with the higher
\* transaction id.
MetaSelectionWitness ==
    /\ ValidSlot(metaPage0)
    /\ ValidSlot(metaPage1)
    /\ data[metaPage1].txid > data[metaPage0].txid
    /\ data[metaPage0].txid > 0
    /\ Picked(metaPage1)


\* How many times each page id occurs in a sequence of ids.
Multiset(s) == [i \in PageIds |-> Cardinality({ j \in DOMAIN s : s[j] = i })]

\* The least number of pages of perPage ids that hold n ids.
CeilDiv(n, perPage) == (n + perPage - 1) \div perPage

\* The free ids the last commit before the Open left in its meta and its
\* chain pages.
KeptFree == ghost.recovered.left.inline \o ghost.recovered.left.chain.ids

\* The last commit before the Open had more free ids than a meta holds.
Overflowed == Len(ghost.recovered.left.all) > metaInlineFreeCapacity(PageSize)

\* C20: when the last commit before a Close ended with K free page ids, K more
\* than the meta holds inline, that commit wrote a chain of
\* ceil((K - inline) / perPage) freelist pages, and the Open after the Close
\* succeeds and rebuilds, from the inline ids and the chain, the same multiset
\* of K ids.  K is read both ways: with the ids that became chain pages and
\* without them.
FreelistChainRoundTrip ==
    (ghost.recovered.after = "closed" /\ Overflowed) =>
        /\ Len(ghost.recovered.left.chain.pages) \in
               { CeilDiv(Len(f) - metaInlineFreeCapacity(PageSize),
                         freelistPageCapacity(PageSize)) :
                     f \in {ghost.recovered.left.all, KeptFree} }
        /\ ghost.recovered.ok
        /\ Multiset(ghost.recovered.free) \in
               { Multiset(ghost.recovered.left.all), Multiset(KeptFree) }

----------------------------------------------------------------------------
(* Accounting of pages across a commit. *)

\* The ids of a pending-free table.
PendingIds(pending) == { pending[i].id : i \in DOMAIN pending }

\* The pages of the freelist chain of meta m as the mapping holds them.
ChainPages(m) ==
    With(readFreelistChain(data, mapLen, m.freelistPage, MaxPage), LAMBDA c :
        IF c.err \/ c.panic THEN {} ELSE SeqToSet(c.pages))

\* Every page the meta m references: the pages reachable from its root and
\* its freelist chain pages.
Referenced(m) == Reach(newTxPageManager(FALSE, m)) \cup ChainPages(m)

\* The pages the commit of w recorded as free: the pending-free table it
\* published and the free list it laid out, the chain pages and their hosts
\* as the transaction wrote them.
RecordedFree(w) ==
    PendingIds(dbPending) \cup SeqToSet(wtx[w].fin.free)
        \cup SeqToSet(ghost.free.inline) \cup SeqToSet(ghost.free.chain.ids)
        \cup SeqToSet(ghost.free.chain.pages)

\* C21: copy-on-write accounting.  When the commit of a write transaction
\* has published the meta of TxID t, every page the meta of TxID t-1
\* referenced is still referenced by the meta of TxID t or is recorded as
\* free, in the pending-free table or on the freelist.
CowAccounting ==
    \A w \in Writers :
        (status = "open" /\ wtx[w].state = "published") =>
            Referenced(ghost.begun[w].meta)
                \subseteq Referenced(dbMeta) \cup RecordedFree(w)

----------------------------------------------------------------------------
(* The partition of the allocated pages. *)

\* The live freelist as the database holds it: the ids of the live meta, the
\* ids stored in its chain pages unless Open has already appended them, and
\* the chain pages themselves.
LiveFreeSeq ==
    With(readFreelistChain(data, mapLen, dbMeta.freelistPage, MaxPage), LAMBDA c :
        IF c.err \/ c.panic THEN dbMeta.freelist
        ELSE IF Len(dbMeta.freelist) > metaInlineFreeCapacity(PageSize)
        THEN dbMeta.freelist \o c.pages
        ELSE dbMeta.freelist \o c.ids \o c.pages)

\* In how many of the three classes the page id is: reachable from the live
\* root, on the live freelist, pending-free.
Classes(id) ==
    Cardinality({ c \in {"reachable", "free", "pending"} :
                    \/ c = "reachable" /\ id \in Reach(live)
                    \/ c = "free" /\ id \in SeqToSet(LiveFreeSeq)
                    \/ c = "pending" /\ id \in PendingIds(dbPending) })

\* No transaction is between the steps of its commit.
Committed == status = "open" /\ InCommit = {}

\* C22: page partition.  In every committed state, after a commit and after
\* Close and Open, every page id from 2 up to nextPage of the live meta is in
\* exactly one class (reachable from the live root, on the freelist, chain
\* pages included, or pending-free) and no id is on the freelist twice.
PagePartition ==
    Committed =>
        /\ \A id \in 2..(dbMeta.nextPage - 1) : Classes(id) = 1
        /\ \A i, j \in DOMAIN LiveFreeSeq :
              LiveFreeSeq[i] = LiveFreeSeq[j] => i = j

\* The part of C22 that says no page is in two classes.
PagePartitionAtMostOnce ==
    Committed =>
        /\ \A id \in 2..(dbMeta.nextPage - 1) : Classes(id) <= 1
        /\ \A i, j \in DOMAIN LiveFreeSeq :
              LiveFreeSeq[i] = LiveFreeSeq[j] => i = j

----------------------------------------------------------------------------
(* The two meta pages. *)

\* The page ids a page names as free pages or as the next chain page.
NamedBy(buf) ==
    IF buf.kind = pageFreelist
    THEN SeqToSet(buf.ids) \cup ({buf.next} \ {0})
    ELSE {}

\* C23: page ids 0 and 1 are never handed out by AllocPage and never on a
\* freelist, in the pending-free table or in a freelist chain page.  In every
\* state neither is in the live meta and table or in a freelist chain page
\* of the mapping, AllocPage of a write transaction begun on the open
\* database returns neither, and, for every transaction that is open or
\* committing, neither is among the pages it allocated and wrote, on its
\* working freelist, in its pending list, in the free list it laid out or in
\* a chain page it wrote, nor is it what its next AllocPage returns.
MetaPagesApart ==
    /\ {metaPage0, metaPage1} \cap
           (SeqToSet(dbMeta.freelist) \cup PendingIds(dbPending)
              \cup ({dbMeta.freelistPage} \ {0})
              \cup UNION { NamedBy(data[id]) : id \in 2..(MaxPage - 1) }) = {}
    /\ status = "open" =>
           AllocPage(newTxPageManager(TRUE, snapshotMeta)).id
               \notin {metaPage0, metaPage1}
    /\ \A w \in Writers :
          wtx[w].state # "none" =>
              /\ AllocPage(wtx[w].mgr).id \notin {metaPage0, metaPage1}
              /\ {metaPage0, metaPage1} \cap
                     (DOMAIN wtx[w].mgr.dirty
                        \cup SeqToSet(wtx[w].mgr.freelist)
                        \cup SeqToSet(wtx[w].mgr.pending)
                        \cup SeqToSet(wtx[w].fin.free)
                        \cup SeqToSet(wtx[w].fin.newMeta.freelist)
                        \cup PendingIds(wtx[w].fin.remaining)
                        \cup UNION { NamedBy(wtx[w].mgr.dirty[id]) :
                                       id \in DOMAIN wtx[w].mgr.dirty }) = {}

\* The step writes a meta page only as the meta write of a commit, into the
\* slot that commit chose.
MetaWrittenByCommit ==
    \A s \in {metaPage0, metaPage1} :
        data'[s] # data[s] =>
            \E w \in Writers : /\ wtx[w].state = "collected"
                               /\ wtx'[w].state = "published"
                               /\ s = wtx[w].fin.slot

\* Without a power loss the meta pages stay apart, and after the
\* initialization of the database they are written only by the meta write of
\* a commit.
MetaPagesReserved ==
    MetaPagesApart /\ [][MetaPagesApart' /\ MetaWrittenByCommit]_vars

\* A commit that laid out a freelist chain has written its meta, from a
\* transaction that took pages off the freelist and freed pages.
MetaPagesReservedWitness ==
    \E w \in Writers :
        /\ wtx[w].state = "published"
        /\ dbMeta.freelistPage # 0
        /\ wtx[w].mgr.pending # <<>>
        /\ ghost.begun[w].meta.freelist # <<>>
        /\ Len(wtx[w].mgr.freelist) < Len(ghost.begun[w].meta.freelist)

----------------------------------------------------------------------------
(* Large values and keys. *)

RECURSIVE overflowChain(_, _, _)
\* The pages of the overflow chain that starts at pageID.
overflowChain(m, pageID, fuel) ==
    IF pageID = 0 \/ fuel = 0 THEN {}
    ELSE With(ReadPage(m, pageID), LAMBDA buf :
             IF buf.kind # pageOverflow THEN {}
             ELSE {pageID} \cup overflowChain(m, buf.next, fuel - 1))

\* The overflow pages of the entry of key in the tree rooted at root: none
\* when the key is not there or its value is inline.
EntryChain(m, root, key) ==
    With(findLeaf(m, root, key, MaxPage), LAMBDA l :
        IF l.err THEN {}
        ELSE With(findKeyIndex(l.node.keys, key), LAMBDA f :
                 IF ~f.ok THEN {}
                 ELSE overflowChain(m, l.node.overflow[f.idx + 1], MaxPage)))

\* The pages a value of n bytes takes when it goes to overflow pages.
OverflowPagesFor(n) == CeilDiv(n, PageSize - overflowHeaderSize)

\* C24: large values and keys.  After a call on the bucket, Get returns for
\* every key exactly the bytes last put, and a value too large for a leaf
\* entry is held by a chain of overflow pages; after a Put or Delete that
\* returned nil every page of the overflow chain the entry had before is in
\* the pending list of the transaction; a Put of a key too large for a leaf
\* entry returns an error and leaves the manager, the roots included, as it
\* was.
OverflowValues ==
    \A w \in Writers :
        (/\ status = "open"
         /\ wtx[w].state = "open"
         /\ ghost.caller = W(w)
         /\ ghost.last.op \in {"Put", "Delete"})
        => \A b \in {BucketAt(wtx[w].mgr, CursorPath)} :
           \A old \in {BucketAt(ghost.pre, CursorPath)} :
              /\ ~b.nil
              /\ \A k \in Keys :
                    \A v \in {ghost.wabs[w][CursorPath].kv[k]} :
                       /\ BucketGet(wtx[w].mgr, b, k) = v
                       /\ Cardinality(EntryChain(wtx[w].mgr, b.kvRoot, k)) =
                              IF leafEntrySize(k, v, PageSize).overflow
                              THEN OverflowPagesFor(Len(v)) ELSE 0
              /\ ghost.last.err = "" =>
                    EntryChain(ghost.pre, old.kvRoot, ghost.last.key)
                        \subseteq SeqToSet(wtx[w].mgr.pending)
              /\ ghost.last.key = LongKey =>
                    /\ ghost.last.err # ""
                    /\ wtx[w].mgr = ghost.pre

\* A Put has replaced, or a Delete has removed, an entry whose value was in
\* a chain of two overflow pages.
OverflowValuesWitness ==
    \E w \in Writers :
        /\ status = "open"
        /\ wtx[w].state = "open"
        /\ ghost.caller = W(w)
        /\ ghost.last.op \in {"Put", "Delete"}
        /\ ghost.last.err = ""
        /\ Cardinality(EntryChain(ghost.pre, BucketAt(ghost.pre, CursorPath).kvRoot,
                                  ghost.last.key)) = 2

\* The long key has been put and refused.
LongKeyWitness ==
    \E w \in Writers :
        /\ wtx[w].state = "open"
        /\ ghost.caller = W(w)
        /\ ghost.last.op = "Put"
        /\ ghost.last.key = LongKey
        /\ ghost.last.err # ""

----------------------------------------------------------------------------
(* Uncommitted writes. *)

\* The write transactions whose commit has not published its meta yet.
Unpublished ==
    { w \in Writers : wtx[w].state \in {"open", "flushed", "synced", "collected"} }

\* The pages of the mapping the transaction w has written: its dirty pages,
\* once flushDirty has run (persistFreelist then adds chain pages to the
\* dirty map that are not copied to the mapping).
Flushed(w) ==
    IF wtx[w].state \in {"flushed", "synced"}
    THEN DOMAIN wtx[w].mgr.dirty ELSE {}

\* C25: uncommitted writes are invisible.  While a write transaction has not
\* published its meta, every open read-only transaction reads what was
\* committed when it took its snapshot and reaches no page the writer has
\* written to the mapping, a read-only transaction begun now reads the
\* published contents and reaches no such page either, and the writer reads
\* its own writes.
UncommittedInvisible ==
    status = "open" =>
        \A w \in Unpublished :
            /\ \A r \in Readers :
                  rtx[r].state = "open" =>
                      /\ Reach(rtx[r].mgr) \cap Flushed(w) = {}
                      /\ View(rtx[r].mgr) = ghost.rabs[r]
            /\ Reach(live) \cap Flushed(w) = {}
            /\ View(live) = ghost.published
            /\ wtx[w].state = "open" => View(wtx[w].mgr) = ghost.wabs[w]

\* The part of C25 that does not depend on when a reader registers: a
\* transaction begun now and the writer itself.
UncommittedInvisibleNow ==
    status = "open" =>
        \A w \in Unpublished :
            /\ Reach(live) \cap Flushed(w) = {}
            /\ View(live) = ghost.published
            /\ wtx[w].state = "open" => View(wtx[w].mgr) = ghost.wabs[w]

\* The mapping changes only in the steps of a commit: flushDirty and the
\* meta write.
MappingWrittenByCommit ==
    [][data' # data =>
          \E w \in Writers :
              \/ wtx[w].state = "open" /\ wtx'[w].state = "flushed"
              \/ wtx[w].state = "collected" /\ wtx'[w].state = "published"]_vars

----------------------------------------------------------------------------
(* Cursor.Seek. *)

\* The keys a cursor is sent to: every key that can be in the bucket, one
\* below them all and one above them all.
SeekKeys == { CursorKey(i) : i \in 0..(NumCursorKeys + 1) }

\* The pairs of the bucket whose key is at or after seek, ascending.
SeekExpected(seek) ==
    SelectSeq(CursorExpected, LAMBDA e : BytesCompare(e[1], seek) >= 0)

\* C26: Cursor.Seek.  In an open write transaction, after any sequence of
\* Puts into a bucket, Seek(k) returns the pair with the smallest key at or
\* after k, or nil when there is none, also when k is greater than every
\* key of the leaf the descent lands in; and Next after it visits the
\* following pairs in ascending order.
SeekFindsCeiling ==
    \A w \in Writers :
        (status = "open" /\ wtx[w].state = "open") =>
            \A b \in {BucketAt(wtx[w].mgr, CursorPath)} :
                ~b.nil =>
                    \A seek \in SeekKeys :
                        CursorSeekScan(wtx[w].mgr, b, seek) = SeekExpected(seek)

\* The pair Seek itself returns, without the Nexts that follow.
SeekFirstPair ==
    \A w \in Writers :
        (status = "open" /\ wtx[w].state = "open") =>
            \A b \in {BucketAt(wtx[w].mgr, CursorPath)} :
                ~b.nil =>
                    \A seek \in SeekKeys :
                        \A r \in {CursorSeek(wtx[w].mgr, b.kvRoot, seek)} :
                            IF SeekExpected(seek) = <<>> THEN r.nil
                            ELSE /\ ~r.nil
                                 /\ <<r.key, r.value>> = SeekExpected(seek)[1]

\* The same when the descent lands in a leaf that holds a key at or after
\* seek, so that Seek does not call Next.
SeekWithinLeaf ==
    \A w \in Writers :
        (status = "open" /\ wtx[w].state = "open") =>
            \A b \in {BucketAt(wtx[w].mgr, CursorPath)} :
                ~b.nil =>
                    \A seek \in SeekKeys :
                        \A l \in {seekLeaf(wtx[w].mgr, b.kvRoot, seek, MaxPage)} :
                            (~l.err /\ l.idx < Len(l.node.keys)) =>
                                \A r \in {CursorSeek(wtx[w].mgr, b.kvRoot, seek)} :
                                    /\ ~r.nil
                                    /\ SeekExpected(seek) # <<>>
                                    /\ <<r.key, r.value>> = SeekExpected(seek)[1]

----------------------------------------------------------------------------
(* The publish step of commit. *)

\* The highest TxID of a meta slot on the device, as Open would pick it
\* (0 when neither slot decodes).
DurableTxID ==
    With(pickMeta(readMetaPage(disk[metaPage0], PageSize),
                  readMetaPage(disk[metaPage1], PageSize)), LAMBDA p :
        IF p.err THEN 0 ELSE p.m.txid)

\* C27: the publish step.  The new (meta, metaPage) is assigned to the live
\* meta only after the second msync and fdatasync have succeeded, so no
\* transaction holds a snapshot of a meta that the device does not hold
\* yet: the TxID of every reader's snapshot, taken or registered, is at
\* most the highest TxID of the meta slots on the device.
SnapshotDurable ==
    status = "open" =>
        \A r \in Readers :
            rtx[r].state \in {"snap", "open"} => rtx[r].mgr.txid <= DurableTxID

\* The live meta itself is on the device whenever the database is open.
LiveMetaDurable ==
    status = "open" =>
        /\ disk[dbMetaPage] = data[dbMetaPage]
        /\ dbMeta.txid <= DurableTxID

\* The pending table is replaced only in the step that replaces the live
\* meta (or by Close and Open).
PendingWithMeta ==
    [][dbPending' # dbPending =>
          \/ dbMeta'.txid = dbMeta.txid + 1 /\ dbMetaPage' # dbMetaPage
          \/ status' # status]_vars

----------------------------------------------------------------------------
(* What is on the device when the meta is written. *)

\* The step of w in which finalizeMeta writes the meta page.
WritesMeta(w) == wtx[w].state = "collected" /\ wtx'[w].state = "published"

\* The freelist chain pages the meta w is about to write names.
ChainIds(w) ==
    SeqToSet(chainOf(wtx[w].mgr, wtx[w].fin.newMeta.freelistPage, MaxPage).pages)

\* Page id of w's dirty map has been copied into the mapping and is on the
\* device.
Synced(w, id) ==
    /\ id \in DOMAIN wtx[w].mgr.dirty
    /\ id < mapLen
    /\ data[id] = wtx[w].mgr.dirty[id]
    /\ disk[id] = wtx[w].mgr.dirty[id]

\* C28: when commit writes the new meta page into its slot, every page the
\* meta references (the dirty tree, header and overflow pages of the
\* transaction and every freelist chain page reachable from freelist_page)
\* has been copied into the mapping and msync'd.
PagesBeforeMeta ==
    [][\A w \in Writers :
          WritesMeta(w) =>
              \A id \in DOMAIN wtx[w].mgr.dirty \cup ChainIds(w) :
                  Synced(w, id)]_vars

\* The same for the pages that are not freelist chain pages.
TreePagesBeforeMeta ==
    [][\A w \in Writers :
          WritesMeta(w) =>
              \A id \in DOMAIN wtx[w].mgr.dirty \ ChainIds(w) :
                  Synced(w, id)]_vars

----------------------------------------------------------------------------
(* The two meta slots. *)

\* The TxID slot id of the mapping holds.
SlotTxID(id) == readMetaPage(data[id], PageSize).m.txid

\* The two slots hold different TxIDs.
SlotTxIDsDiffer == SlotTxID(metaPage0) # SlotTxID(metaPage1)

\* The step in which the commit of w replaces the live meta.
Publishes(w) == wtx[w].state = "collected" /\ wtx'[w].state = "published"

\* C29: the meta slots alternate.  A commit writes its meta into the slot
\* that is not live, with the TxID of its snapshot plus one, and makes that
\* slot live; the bytes of the slot that was live are not modified; the
\* live TxID goes up by exactly one in that step and changes in no other
\* step while the database is open; the two slots never hold the same
\* TxID.
MetaSlotsAlternate ==
    /\ SlotTxIDsDiffer
    /\ [][/\ SlotTxIDsDiffer'
          /\ \A w \in Writers :
                Publishes(w) =>
                    /\ dbMetaPage' \in {metaPage0, metaPage1} \ {dbMetaPage}
                    /\ dbMeta'.txid = wtx[w].mgr.txid + 1
                    /\ dbMeta'.txid = dbMeta.txid + 1
                    /\ data'[dbMetaPage] = data[dbMetaPage]
                    /\ data'[dbMetaPage'] =
                           writeMetaPage(data[dbMetaPage'], dbMeta', PageSize)
                    /\ readMetaPage(data'[dbMetaPage'], PageSize).m = dbMeta'
          /\ (status = "open" /\ status' = "open"
                /\ ~ \E w \in Writers : Publishes(w)) =>
                    /\ dbMeta' = dbMeta
                    /\ dbMetaPage' = dbMetaPage
                    /\ data'[metaPage0] = data[metaPage0]
                    /\ data'[metaPage1] = data[metaPage1]]_vars

\* Two commits have returned nil since Open: the live slot went from 0 to 1
\* and back to 0.
MetaSlotsAlternateWitness ==
    /\ status = "open"
    /\ dbMeta.txid = 3
    /\ dbMetaPage = metaPage0
    /\ SlotTxID(metaPage0) = 3
    /\ SlotTxID(metaPage1) = 2
    /\ InCommit = {}

----------------------------------------------------------------------------
(* Reclaiming pending frees. *)

\* Write transactions that create and delete one bucket and commit, up to
\* TxID MaxReclaimTxid, with readers.
NextReclaim ==
    \/ \E w \in Writers :
          \/ BeginWriteUpTo(w, MaxReclaimTxid)
          \/ CreateBucket(w, CursorPath)
          \/ DeleteBucket(w, CursorPath)
          \/ CommitFlush(w)
          \/ CommitMsync(w)
          \/ CommitCollect(w)
          \/ CommitPublish(w)
          \/ CommitSync(w)
    \/ \E r \in Readers :
          \/ BeginReadSnapshot(r)
          \/ BeginReadRegister(r)
          \/ ReadClose(r)

SpecReclaim == Init /\ [][NextReclaim]_vars

\* The snapshot TxIDs of the readers in the reader table.
OpenReadTxIDs == { t \in DOMAIN readTxs : readTxs[t] > 0 }

\* The pending entries the commit of w decides about: the table and what the
\* transaction freed, under the TxID it commits.
PendingAtCommit(w) ==
    SeqToSet(dbPending) \cup
        { PendingFree(wtx[w].mgr.txid + 1, wtx[w].mgr.pending[i]) :
            i \in DOMAIN wtx[w].mgr.pending }

\* Entry e was freed under a TxID below that of every reader in the table.
BelowReaders(e) == \A t \in OpenReadTxIDs : e.txid < t

\* The step in which finalizeMeta of w reads the reader table and the
\* pending table.
Collects(w) == wtx[w].state = "synced" /\ wtx'[w].state = "collected"

\* The free ids the meta and the chain pages of the commit of w hold, and
\* the chain pages themselves.
FreeWritten(w) ==
    With(chainOf(wtx[w].mgr, wtx[w].fin.newMeta.freelistPage, MaxPage), LAMBDA c :
        SeqToSet(wtx[w].fin.newMeta.freelist) \cup SeqToSet(c.ids)
            \cup SeqToSet(c.pages))

\* C30: pending frees are reclaimed.  The commit that follows the close of
\* the readers moves every pending entry freed under a TxID below the least
\* reader TxID from the pending table to the freelist that goes into the
\* new meta and its chain, and a commit with no reader in the table leaves
\* the pending table empty; the table and the freelist become those of the
\* database in the step that publishes the meta.
PendingReclaimed ==
    [][\A w \in Writers :
          /\ Collects(w) =>
                /\ \A e \in PendingAtCommit(w) :
                      BelowReaders(e) =>
                          /\ e \notin SeqToSet(wtx'[w].fin.remaining)
                          /\ e.id \in SeqToSet(wtx'[w].fin.free)
                /\ OpenReadTxIDs = {} => wtx'[w].fin.remaining = <<>>
          /\ Publishes(w) =>
                /\ dbPending' = wtx[w].fin.remaining
                /\ SeqToSet(wtx[w].fin.free) \subseteq FreeWritten(w)
                /\ dbMeta'.freelist = wtx[w].fin.newMeta.freelist
                /\ dbMeta'.freelistPage = wtx[w].fin.newMeta.freelistPage]_vars

\* A commit is about to publish with a reader of TxID 3 in the table: the
\* entries freed under TxID 2, pending until now, are in its free list, and
\* later entries stay pending.
PendingReclaimedWitness ==
    \E w \in Writers :
        /\ wtx[w].state = "collected"
        /\ OpenReadTxIDs = {3}
        /\ wtx[w].fin.remaining # <<>>
        /\ \E i \in DOMAIN dbPending :
              /\ dbPending[i].txid = 2
              /\ dbPending[i] \notin SeqToSet(wtx[w].fin.remaining)
              /\ dbPending[i].id \in SeqToSet(wtx[w].fin.free)

\* A commit with no reader in the table has emptied a pending table that
\* held entries.
PendingEmptiedWitness ==
    \E w \in Writers :
        /\ wtx[w].state = "published"
        /\ OpenReadTxIDs = {}
        /\ ghost.begun[w].pending # <<>>
        /\ dbPending = <<>>

----------------------------------------------------------------------------
(* The mapping latch. *)

\* C31: the mapping is never unmapped or remapped while a read-only
\* transaction is open.  A step that changes the mapped length (remap) or
\* closes the database (munmap) is taken only when no read-only transaction
\* holds the mapping latch, and every read-only transaction holds it from
\* its Begin until it closes.
MappingStableForReaders ==
    [][(mapLen' # mapLen \/ (status = "open" /\ status' # "open")) =>
          /\ mapReaders = {}
          /\ \A r \in Readers : rtx[r].state = "none"]_vars

\* A commit that must grow the file is due while a read-only transaction is
\* open.
MappingStableWitness ==
    \E w \in Writers, r \in Readers :
        /\ wtx[w].state = "open"
        /\ requiredPages(wtx[w].mgr) > mapLen
        /\ rtx[r].state = "open"

\* The file has grown, and a read-only transaction that began before the
\* commit is open.
MappingGrownWitness ==
    \E r \in Readers :
        /\ mapLen > 3
        /\ rtx[r].state = "open"
        /\ rtx[r].mgr.txid = 1

----------------------------------------------------------------------------
(* The reader table. *)

TableReaders == 1..NumTableReaders

\* The database after construction, with NumTableReaders clients that read.
InitReaders ==
    /\ status = "open"
    /\ data = InitPages
    /\ mapLen = 3
    /\ disk = InitPages
    /\ dbMeta = Meta(1, 2, 3, 0, <<>>)
    /\ dbMetaPage = metaPage0
    /\ dbPending = <<>>
    /\ readTxs = [t \in TxIDs |-> 0]
    /\ mu = NoOwner
    /\ wtx = [w \in Writers |-> NoTx]
    /\ rtx = [r \in TableReaders |-> NoTx]
    /\ ghost = [InitGhost EXCEPT !.rabs = [r \in TableReaders |-> EmptyView]]

\* Commits that raise the live TxID, and read-only transactions that begin
\* and end by Commit or Rollback, called once or again on the closed
\* transaction.
NextReaders ==
    \/ \E w \in Writers :
          \/ BeginWrite(w)
          \/ CommitFlush(w)
          \/ CommitMsync(w)
          \/ CommitCollect(w)
          \/ CommitPublish(w)
          \/ CommitSync(w)
    \/ \E r \in TableReaders :
          \/ BeginReadSnapshot(r)
          \/ BeginReadRegister(r)
          \/ ReadClose(r)
          \/ \E end \in EndOps, again \in EndOps :
                ReadEndThenCall(r, end, again, CursorPath, <<>>, <<>>)

SpecReaders == InitReaders /\ [][NextReaders]_vars

\* The read-only transactions that Begin has returned and that are not
\* closed.
OpenReaders == { r \in DOMAIN rtx : rtx[r].state = "open" }

\* C32: the reader table.  In every state the table holds each TxID as
\* many times as there are open read-only transactions with that snapshot
\* TxID (Begin registers one, a close by Commit, Rollback or the return of
\* DB.Read removes one), and minReadTxID returns the least snapshot TxID of
\* the open read-only transactions, or none exactly when there is none.
ReaderTableExact ==
    /\ \A t \in DOMAIN readTxs :
          readTxs[t] = Cardinality({ r \in OpenReaders : rtx[r].mgr.txid = t })
    /\ minReadTxID(readTxs) =
          IF OpenReaders = {} THEN { [min |-> 0, ok |-> FALSE] }
          ELSE { [min |-> SetMin({ rtx[r].mgr.txid : r \in OpenReaders }),
                  ok |-> TRUE] }

\* Two read-only transactions of one TxID and one of a later TxID are open.
ReaderTableExactWitness ==
    \E a \in DOMAIN rtx, b \in DOMAIN rtx, c \in DOMAIN rtx :
        /\ a # b
        /\ {a, b, c} \subseteq OpenReaders
        /\ rtx[a].mgr.txid = rtx[b].mgr.txid
        /\ rtx[c].mgr.txid > rtx[a].mgr.txid
        /\ readTxs[rtx[a].mgr.txid] = 2

\* One of two read-only transactions of the same TxID has closed.
ReaderTableClosedWitness ==
    \E a \in DOMAIN rtx, b \in DOMAIN rtx :
        /\ rtx[a].state = "open"
        /\ rtx[b].state = "none"
        /\ ghost.caller = ClosedR(b)
        /\ ghost.pre.txid = rtx[a].mgr.txid
        /\ readTxs[rtx[a].mgr.txid] = 1

----------------------------------------------------------------------------
(* The shape of a tree. *)

\* One write transaction that creates the bucket, puts long keys in it and
\* deletes them.
NextTree ==
    \E w \in Writers :
        \/ BeginWrite(w)
        \/ CreateBucket(w, CursorPath)
        \/ \E k \in CursorKeys : CursorPut(w, k, <<1>>)
        \/ \E k \in CursorKeys : CursorDelete(w, k)

SpecTree == Init /\ [][NextTree]_vars

RECURSIVE subtreeKeys(_, _, _)
\* The keys in the leaves under page pageID.
subtreeKeys(m, pageID, fuel) ==
    IF fuel = 0 THEN {}
    ELSE With(readNode(m, pageID), LAMBDA r :
             IF r.err THEN {}
             ELSE IF r.node.isLeaf THEN SeqToSet(r.node.keys)
             ELSE UNION { subtreeKeys(m, r.node.children[i], fuel - 1) :
                            i \in DOMAIN r.node.children })

\* The nodes of the tree rooted at root.
TreeNodes(m, root) ==
    { readNode(m, id).node :
        id \in { x \in treePages(m, root, MaxPage) : ~readNode(m, x).err } }

\* keys is strictly ascending in the order of bytes.Compare.
Ascending(keys) ==
    \A i \in 1..(Len(keys) - 1) : BytesCompare(keys[i], keys[i + 1]) < 0

\* Branch n separates its children: the keys under child i are below
\* separator i, and separator i is at most every key under child i+1.
Separates(m, n) ==
    \A i \in 1..Len(n.keys) :
        /\ \A k \in subtreeKeys(m, n.children[i], MaxPage) :
              BytesCompare(k, n.keys[i]) < 0
        /\ \A k \in subtreeKeys(m, n.children[i + 1], MaxPage) :
              BytesCompare(n.keys[i], k) <= 0

\* The tree rooted at root is well formed and get finds each of its keys.
WellFormed(m, root) ==
    /\ \A id \in treePages(m, root, MaxPage) : ~readNode(m, id).err
    /\ \A n \in TreeNodes(m, root) :
          /\ Ascending(n.keys)
          /\ ~n.isLeaf => /\ Len(n.children) = Len(n.keys) + 1
                          /\ Separates(m, n)
    /\ \A a \in TreeNodes(m, root), b \in TreeNodes(m, root) :
          (a.isLeaf /\ b.isLeaf /\ a.pageID # b.pageID) =>
              SeqToSet(a.keys) \cap SeqToSet(b.keys) = {}
    /\ \A k \in subtreeKeys(m, root, MaxPage) :
          With(get(m, root, k), LAMBDA g : ~g.err /\ g.ok)

\* C33: the shape of the tree.  After any sequence of set and delete every
\* branch with k keys has k+1 children, the keys of each node are strictly
\* ascending and no key is in two leaves, the keys under child i are below
\* separator i and separator i is at most the keys under child i+1, and get
\* finds every key that a leaf holds and the value last put under it.
TreeWellFormed ==
    \A w \in Writers :
        (status = "open" /\ wtx[w].state = "open") =>
            \A b \in {BucketAt(wtx[w].mgr, CursorPath)} :
                ~b.nil =>
                    /\ WellFormed(wtx[w].mgr, b.kvRoot)
                    /\ \A k \in CursorKeys :
                          BucketGet(wtx[w].mgr, b, k) = ghost.cursor[k]

\* The tree has two levels of branches, one of them with no key and one
\* child, and a leaf that a Delete has emptied.
TreeWellFormedWitness ==
    \E w \in Writers :
        /\ wtx[w].state = "open"
        /\ \E b \in {BucketAt(wtx[w].mgr, CursorPath)} :
              /\ ~b.nil
              /\ \E n \in TreeNodes(wtx[w].mgr, b.kvRoot) :
                    /\ ~n.isLeaf
                    /\ \E i \in DOMAIN n.children :
                          ~readNode(wtx[w].mgr, n.children[i]).node.isLeaf
              /\ \E n \in TreeNodes(wtx[w].mgr, b.kvRoot) :
                    n.isLeaf /\ n.keys = <<>>
              /\ subtreeKeys(wtx[w].mgr, b.kvRoot, MaxPage) # {}
              /\ \E n \in TreeNodes(wtx[w].mgr, b.kvRoot) :
                    ~n.isLeaf /\ n.keys = <<>> /\ Len(n.children) = 1

----------------------------------------------------------------------------
(* Leaves that fit. *)

FitKeys == { <<i>> : i \in 1..NumFitKeys }
FitVal(len) == [j \in 1..len |-> 1]
FitVals == { FitVal(1), FitVal(FitMid), FitVal(FitMax) }

\* One write transaction that creates the bucket and puts inline values of
\* three lengths under short keys.
NextFit ==
    \E w \in Writers :
        \/ BeginWrite(w)
        \/ CreateBucket(w, CursorPath)
        \/ \E k \in FitKeys, v \in FitVals : FitPut(w, k, v)

SpecFit == Init /\ [][NextFit]_vars

\* Every entry that is put fits a page by itself, inline.
EntriesFit ==
    \A k \in FitKeys, v \in FitVals :
        With(leafEntrySize(k, v, PageSize), LAMBDA e :
            ~e.err /\ ~e.overflow /\ nodeHeaderSize + e.size <= PageSize)

\* The last call was a Put by w.
PutBy(w) == ghost.caller = W(w) /\ ghost.last.op = "Put"

\* The key of the last Put was in the bucket before the call.
KeyWasThere ==
    BucketGet(ghost.pre, BucketAt(ghost.pre, CursorPath), ghost.last.key) # <<>>

\* C34: set never fails on entries that fit.  In a tree where every entry
\* fits a page by itself, no Put returns an error: a leaf that exceeds the
\* page is split at floor(n/2) into two leaves that fit, whatever the sizes
\* of its entries.
SetNeverTooLarge ==
    EntriesFit /\ \A w \in Writers : PutBy(w) => ghost.last.err = ""

\* The same for the Puts of a key that was not in the bucket, which insert
\* an entry and split the leaf when it does not fit.
SplitHalvesFit ==
    \A w \in Writers : (PutBy(w) /\ ~KeyWasThere) => ghost.last.err = ""

\* The same for the Puts that replace the value of a key.
ReplaceFits ==
    \A w \in Writers : (PutBy(w) /\ KeyWasThere) => ghost.last.err = ""

----------------------------------------------------------------------------
(* Free ids across commits. *)

\* The step in which finalizeMeta of w runs up to the meta latch, whatever
\* comes of it.
CollectTried(w) == wtx[w].state = "synced" /\ wtx'[w].state # "synced"

\* The free ids the live meta stands for, inline and in the chain the commit
\* that published it wrote, and the pages of that chain.
PrevFree ==
    SeqToSet(dbMeta.freelist) \cup
        (IF dbMeta.freelistPage # 0 THEN SeqToSet(ghost.free.chain.ids) ELSE {})
PrevHosts ==
    IF dbMeta.freelistPage # 0 THEN SeqToSet(ghost.free.chain.pages) ELSE {}

\* The ids the transaction of w took from the freelist of its snapshot.
Allocated(w) ==
    SeqToSet(ghost.begun[w].meta.freelist) \ SeqToSet(wtx[w].mgr.freelist)

\* The free ids are conserved by the commit of w in this step.
Conserved(w) ==
    /\ wtx'[w].state = "collected"
    /\ \E c \in {chainOf(wtx'[w].mgr, wtx'[w].fin.newMeta.freelistPage, MaxPage)} :
          SeqToSet(wtx'[w].fin.newMeta.freelist) \cup SeqToSet(c.ids) =
              (((PrevFree \ Allocated(w))
                   \cup { e.id : e \in PendingAtCommit(w)
                                     \ SeqToSet(wtx'[w].fin.remaining) })
                   \cup PrevHosts) \ SeqToSet(c.pages)

\* C35: free ids are conserved across the commits of one process.  The free
\* set a commit leaves (inline and chain) is the previous one (inline and
\* the ids in the previous chain) without the ids the transaction
\* allocated, with the pending ids that became reusable and the pages of the
\* previous chain, without the pages of the new chain; the ids in the
\* previous chain are not dropped.
FreeIdsConserved ==
    [][\A w \in Writers : CollectTried(w) => Conserved(w)]_vars

\* The same for the commits that follow a meta without a chain.
FreeIdsConservedInline ==
    [][\A w \in Writers :
          (CollectTried(w) /\ dbMeta.freelistPage = 0) => Conserved(w)]_vars

----------------------------------------------------------------------------
(* Allocation. *)

\* s back to front.
Reverse(s) == [i \in 1..Len(s) |-> s[Len(s) + 1 - i]]

\* No id occurs twice in s.
Distinct(s) == \A i \in DOMAIN s, j \in DOMAIN s : s[i] = s[j] => i = j

\* The ids that allocations from manager m hand out until the freelist is
\* empty and twice more: the freelist from its last id to its first, then
\* next_page and the id after it, none of them twice and none a page the
\* transaction was handed before.
AllocOrder(m) ==
    With(allocPages(m, Len(m.freelist) + 2), LAMBDA a :
        /\ a.ids = Reverse(m.freelist) \o <<m.nextPage, m.nextPage + 1>>
        /\ Distinct(a.ids)
        /\ SeqToSet(a.ids) \cap DOMAIN m.dirty = {}
        /\ a.m.freelist = <<>>
        /\ a.m.nextPage = m.nextPage + 2
        /\ a.m.maxPage >= m.nextPage + 1)

\* C36: AllocPage.  A write transaction takes the ids of its snapshot's
\* freelist from the last to the first and only then next_page, which it
\* increments: the file grows only when the freelist is used up, every page
\* the transaction has written is one it took that way, and no id is handed
\* out twice in one transaction.
AllocReusesFirst ==
    \A w \in Writers :
        (status = "open" /\ wtx[w].state = "open") =>
            \E m \in {wtx[w].mgr}, s \in {ghost.begun[w].meta} :
                /\ Len(m.freelist) <= Len(s.freelist)
                /\ m.freelist = SubSeq(s.freelist, 1, Len(m.freelist))
                /\ m.nextPage >= s.nextPage
                /\ m.nextPage > s.nextPage => m.freelist = <<>>
                /\ DOMAIN m.dirty \subseteq
                       (SeqToSet(s.freelist) \ SeqToSet(m.freelist))
                           \cup s.nextPage..(m.nextPage - 1)
                /\ AllocOrder(m)

\* A write transaction began with two or more free ids that earlier commits
\* freed, has used them all and has then taken pages from the end.
AllocReusesFirstWitness ==
    \E w \in Writers :
        /\ status = "open"
        /\ wtx[w].state = "open"
        /\ Len(ghost.begun[w].meta.freelist) >= 2
        /\ wtx[w].mgr.freelist = <<>>
        /\ wtx[w].mgr.nextPage > ghost.begun[w].meta.nextPage
        /\ SeqToSet(ghost.begun[w].meta.freelist) \subseteq DOMAIN wtx[w].mgr.dirty

----------------------------------------------------------------------------
(* Cursor.First over empty leaves. *)

\* C37: Cursor.First after deletes.  Deletes leave empty leaves behind;
\* First still returns the pair with the smallest key of the bucket, and nil
\* only when the bucket holds no key.
FirstSkipsEmptyLeaves ==
    \A w \in Writers :
        (status = "open" /\ wtx[w].state = "open") =>
            \A b \in {BucketAt(wtx[w].mgr, CursorPath)} :
                ~b.nil =>
                    \A r \in {CursorFirst(wtx[w].mgr, b.kvRoot)} :
                        IF CursorExpected = <<>> THEN r.nil
                        ELSE /\ ~r.nil
                             /\ <<r.key, r.value>> = CursorExpected[1]

\* The same while the leftmost leaf of the tree holds a key.
FirstInFirstLeaf ==
    \A w \in Writers :
        (status = "open" /\ wtx[w].state = "open") =>
            \A b \in {BucketAt(wtx[w].mgr, CursorPath)} :
                (~b.nil /\ ~descendLeft(wtx[w].mgr, b.kvRoot, MaxPage).err
                        /\ descendLeft(wtx[w].mgr, b.kvRoot, MaxPage).node.keys # <<>>)
                =>
                    \A r \in {CursorFirst(wtx[w].mgr, b.kvRoot)} :
                        /\ ~r.nil
                        /\ CursorExpected # <<>>
                        /\ <<r.key, r.value>> = CursorExpected[1]

----------------------------------------------------------------------------
(* Bucket handles held across calls.  A *Bucket keeps its own copy of
   header, kvRoot, bucketRoot and sequence and a pointer to the handle it
   was got from; the handles of a caller are numbered in the order they were
   got and parent is the number of the parent handle, 0 for nil. *)

RECURSIVE persistHeaderOf(_, _, _)
\* Bucket.persistHeader on handle i, with updateChild on the handle its
\* parent pointer names; the fields are assigned as the code assigns them:
\* [m, hs, err].
persistHeaderOf(m, hs, i) ==
    With(AllocPage(m), LAMBDA a :
    With(writeBucketHeader(a.m, a.id, hs[i].kvRoot, hs[i].bucketRoot,
                           hs[i].sequence), LAMBDA m1 :
    With([hs EXCEPT ![i].header = a.id], LAMBDA h1 :
        IF hs[i].parent = 0
        THEN With(set(m1, m1.root, hs[i].name, encodePageID(a.id)), LAMBDA s :
                 IF s.err THEN [m |-> s.m, hs |-> h1, err |-> TRUE]
                 ELSE [m |-> [s.m EXCEPT !.root = s.root], hs |-> h1,
                       err |-> FALSE])
        ELSE With(set(m1, h1[hs[i].parent].bucketRoot, hs[i].name,
                      encodePageID(a.id)), LAMBDA s :
                 IF s.err THEN [m |-> s.m, hs |-> h1, err |-> TRUE]
                 ELSE persistHeaderOf(s.m,
                          [h1 EXCEPT ![hs[i].parent].bucketRoot = s.root],
                          hs[i].parent)))))

\* The names from the transaction down to handle i.
RECURSIVE PathOf(_, _)
PathOf(hs, i) ==
    IF hs[i].parent = 0 THEN <<hs[i].name>>
    ELSE Append(PathOf(hs, hs[i].parent), hs[i].name)

CanCall(w) ==
    /\ status = "open"
    /\ wtx[w].state = "open"
    /\ wtx[w].ops <= MaxHandleOps

\* One call through handle i of w leaves manager m and handles hs.
HandleStep(w, m, hs, abs, call) ==
    /\ m.nextPage <= MaxPage
    /\ wtx' = [wtx EXCEPT ![w].mgr = m, ![w].ops = @ + 1]
    /\ ghost' = [ghost EXCEPT !.wabs[w] = abs, !.last = call,
                              !.caller = W(w), !.pre = wtx[w].mgr,
                              !.handles[w] = hs]
    /\ UNCHANGED <<status, data, mapLen, disk, dbMeta, dbMetaPage, dbPending,
                   readTxs, mu, rtx>>

\* h := tx.Bucket(name) for parent 0, h := handle parent.Bucket(name)
\* otherwise; the caller keeps h.
OpenHandle(w, parent, name) ==
    /\ status = "open"
    /\ wtx[w].state = "open"
    /\ Len(ghost.handles[w]) < MaxHandles
    /\ parent \in 0..Len(ghost.handles[w])
    /\ \E b \in {IF parent = 0 THEN TxBucket(wtx[w].mgr, name)
                 ELSE lookupBucket(wtx[w].mgr,
                                   ghost.handles[w][parent].bucketRoot,
                                   parent, name)} :
          /\ ~b.nil
          /\ ghost' = [ghost EXCEPT
                          !.handles[w] =
                              Append(@, [b EXCEPT !.parent = parent])]
    /\ UNCHANGED <<status, data, mapLen, disk, dbMeta, dbMetaPage, dbPending,
                   readTxs, mu, wtx, rtx>>

\* handle i.Put(k, v)
HandlePut(w, i, k, v) ==
    /\ CanCall(w)
    /\ i \in 1..Len(ghost.handles[w])
    /\ \E hs \in {ghost.handles[w]} :
       \E s \in {set(wtx[w].mgr, hs[i].kvRoot, k, v)} :
       \E r \in {IF s.err THEN [m |-> s.m, hs |-> hs, err |-> TRUE]
                 ELSE persistHeaderOf(s.m, [hs EXCEPT ![i].kvRoot = s.root], i)} :
          HandleStep(w, r.m, r.hs,
                     IF r.err THEN ghost.wabs[w]
                     ELSE AbsPut(ghost.wabs[w], PathOf(hs, i), k, v),
                     Call("Put", PathOf(hs, i), k, IF r.err THEN "error" ELSE ""))

\* handle i.Delete(k)
HandleDelete(w, i, k) ==
    /\ CanCall(w)
    /\ i \in 1..Len(ghost.handles[w])
    /\ \E hs \in {ghost.handles[w]} :
       \E d \in {delete(wtx[w].mgr, hs[i].kvRoot, k)} :
       \E r \in {IF d.err THEN [m |-> d.m, hs |-> hs, err |-> TRUE]
                 ELSE persistHeaderOf(d.m, [hs EXCEPT ![i].kvRoot = d.root], i)} :
          HandleStep(w, r.m, r.hs,
                     IF r.err THEN ghost.wabs[w]
                     ELSE AbsDelete(ghost.wabs[w], PathOf(hs, i), k),
                     Call("Delete", PathOf(hs, i), k,
                          IF r.err THEN "error" ELSE ""))

NextHandles ==
    \E w \in Writers :
        \/ BeginWrite(w)
        \/ \E p \in Paths : CreateBucket(w, p)
        \/ \E parent \in 0..MaxHandles : \E n \in Names :
              OpenHandle(w, parent, n)
        \/ \E i \in 1..MaxHandles :
              \/ \E k \in Keys : \E v \in Vals : HandlePut(w, i, k, v)
              \/ \E k \in Keys : HandleDelete(w, i, k)

SpecHandles == Init /\ [][NextHandles]_vars

\* What Get through handle i of w returns for every key.
HandleView(w, i) == BucketView(wtx[w].mgr, ghost.handles[w][i])

\* C38: handles of one write transaction.  Whatever handles to its buckets
\* the caller holds and in whatever order it puts and deletes through them,
\* Get through every handle returns what was last put under the key in that
\* bucket by any of them, and the tree the commit would publish holds every
\* change made.
HandlesCoherent ==
    \A w \in Writers :
        (status = "open" /\ wtx[w].state = "open") =>
            /\ \A i \in 1..Len(ghost.handles[w]) :
                  HandleView(w, i) = ghost.wabs[w][PathOf(ghost.handles[w], i)]
            /\ View(wtx[w].mgr) = ghost.wabs[w]

\* The first half alone: a change is visible through the handles got
\* before it.
HandlesSeeChanges ==
    \A w \in Writers :
        (status = "open" /\ wtx[w].state = "open") =>
            \A i \in 1..Len(ghost.handles[w]) :
                HandleView(w, i) = ghost.wabs[w][PathOf(ghost.handles[w], i)]

\* The second half alone: no change is lost from what the commit publishes.
HandlesKeepChanges ==
    \A w \in Writers :
        (status = "open" /\ wtx[w].state = "open") =>
            View(wtx[w].mgr) = ghost.wabs[w]

\* With one handle held and no nested bucket made, the handle and the tree
\* agree with the calls made.
OneHandleCoherent ==
    \A w \in Writers :
        (status = "open" /\ wtx[w].state = "open"
            /\ Len(ghost.handles[w]) = 1
            /\ \A p \in Paths : Len(p) > 1 => ~ghost.wabs[w][p].exists) =>
            /\ HandleView(w, 1) = ghost.wabs[w][PathOf(ghost.handles[w], 1)]
            /\ View(wtx[w].mgr) = ghost.wabs[w]

----------------------------------------------------------------------------
(* DB.Read and DB.Write: how the callback leaves. *)

\* DB.Write whose callback panics.  Write defers nothing and recovers
\* nothing: its frame and the callback's unwind, neither tx.Rollback nor
\* tx.Commit runs, and the thread is left without a transaction.
WritePanic(w) ==
    /\ status = "open"
    /\ wtx[w].state = "open"
    /\ wtx' = [wtx EXCEPT ![w] = NoTx]
    /\ ghost' = [ghost EXCEPT !.wabs[w] = EmptyView,
                              !.result[w] = "panic",
                              !.last = Call("panic", <<>>, <<>>, ""),
                              !.caller = W(w)]
    /\ UNCHANGED <<status, data, mapLen, disk, dbMeta, dbMetaPage, dbPending,
                   readTxs, mu, rtx>>

\* DB.Read whose callback panics: the deferred tx.Rollback runs while the
\* frame unwinds.
ReadPanic(r) ==
    /\ status = "open"
    /\ rtx[r].state = "open"
    /\ \E e \in {TxEnd(TxRec(FALSE, FALSE, rtx[r].mgr), "Rollback", mu,
                       readTxs)} :
          /\ mu' = e.mu
          /\ readTxs' = e.readTxs
    /\ rtx' = [rtx EXCEPT ![r] = NoTx]
    /\ ghost' = [ghost EXCEPT !.rabs[r] = EmptyView,
                              !.last = Call("panic", <<>>, <<>>, ""),
                              !.caller = R(r)]
    /\ UNCHANGED <<status, data, mapLen, disk, dbMeta, dbMetaPage, dbPending,
                   wtx>>

NextUnwind ==
    \/ \E w \in Writers :
          \/ BeginWrite(w)
          \/ CreateBucket(w, CursorPath)
          \/ Rollback(w)
          \/ CommitFlush(w)
          \/ CommitMsync(w)
          \/ CommitCollect(w)
          \/ CommitPublish(w)
          \/ CommitSync(w)
          \/ WritePanic(w)
    \/ \E r \in Readers :
          \/ BeginReadSnapshot(r)
          \/ BeginReadRegister(r)
          \/ ReadClose(r)
          \/ ReadPanic(r)

SpecUnwind == Init /\ [][NextUnwind]_vars

\* No call of DB.Write, and no call of DB.Read, is on the stack.
NoWriteCall == \A w \in Writers : wtx[w].state = "none"
NoReadCall == \A r \in Readers : rtx[r].state = "none"

\* C39: DB.Write and DB.Read unwound.  However the callbacks left (return
\* of nil, return of an error, panic), once no Write call is on the stack
\* the writer latch is free, so that the next DB.Write can begin, and once no
\* Read call is on the stack no reader is registered and the mapping latch
\* is not held shared.
LatchesReleased ==
    /\ NoWriteCall => mu = NoOwner
    /\ NoReadCall => /\ \A t \in TxIDs : readTxs[t] = 0
                     /\ mapReaders = {}

\* The half of DB.Read, panics included.
ReadLatchesReleased ==
    NoReadCall => /\ \A t \in TxIDs : readTxs[t] = 0
                  /\ mapReaders = {}

\* The half of DB.Write for the callbacks that return: the step that ends
\* the call, by Rollback or by the last step of Commit, frees the latch.
WriteReturnReleases ==
    [][\A w \in Writers :
          (wtx[w].state # "none" /\ wtx'[w].state = "none"
              /\ ghost'.result[w] # "panic") => mu' = NoOwner]_vars

\* The same for every way out.
WriteUnwindReleases ==
    [][\A w \in Writers :
          (wtx[w].state # "none" /\ wtx'[w].state = "none") =>
              mu' = NoOwner]_vars

----------------------------------------------------------------------------
(* Bucket sequences. *)

\* handle i.NextSequence(): the handle's sequence is incremented, then the
\* header is rewritten; the value is returned when that succeeded.
HandleNextSequence(w, i) ==
    /\ CanCall(w)
    /\ i \in 1..Len(ghost.handles[w])
    /\ \E hs \in {ghost.handles[w]} :
       \E r \in {persistHeaderOf(wtx[w].mgr,
                                 [hs EXCEPT ![i].sequence = @ + 1], i)} :
          /\ r.m.nextPage <= MaxPage
          /\ wtx' = [wtx EXCEPT ![w].mgr = r.m, ![w].ops = @ + 1]
          /\ ghost' = [ghost EXCEPT
                          !.handles[w] = r.hs,
                          !.seq[w] = IF r.err THEN @ ELSE r.hs[i].sequence,
                          !.last = Call("NextSequence", PathOf(hs, i), <<>>,
                                        IF r.err THEN "error" ELSE ""),
                          !.caller = W(w),
                          !.pre = wtx[w].mgr]
    /\ UNCHANGED <<status, data, mapLen, disk, dbMeta, dbMetaPage, dbPending,
                   readTxs, mu, rtx>>

NextSequence ==
    \E w \in Writers :
        \/ BeginWrite(w)
        \/ CreateBucket(w, CursorPath)
        \/ OpenHandle(w, 0, CursorPath[1])
        \/ \E i \in 1..MaxHandles :
              /\ wtx[w].state = "open"
              /\ wtx[w].ops <= MaxSequenceOps
              /\ \/ HandleNextSequence(w, i)
                 \/ HandlePut(w, i, <<1>>, <<1>>)
                 \/ HandleDelete(w, i, <<1>>)
        \/ CommitFlush(w)
        \/ CommitMsync(w)
        \/ CommitCollect(w)
        \/ CommitPublish(w)
        \/ CommitSync(w)

SpecSequence == Init /\ [][NextSequence]_vars

\* The call that returned last was op, made by w in its open write
\* transaction, and it returned no error.
Returned(w, op) ==
    /\ status = "open"
    /\ wtx[w].state = "open"
    /\ ghost.caller = W(w)
    /\ ghost.last.op = op
    /\ ghost.last.err = ""

\* What the calls of w have done to the sequence of the bucket.
SequenceStep(w) ==
    /\ Returned(w, "NextSequence") =>
          /\ ghost.seq[w] = SequenceAt(ghost.pre, CursorPath) + 1
          /\ SequenceAt(wtx[w].mgr, CursorPath) = ghost.seq[w]
    /\ (Returned(w, "Put") \/ Returned(w, "Delete")) =>
          SequenceAt(wtx[w].mgr, CursorPath) = SequenceAt(ghost.pre, CursorPath)
    /\ (status = "open" /\ wtx[w].state = "published") =>
          SequenceAt(live, CursorPath) = ghost.seq[w]

\* C40: Bucket.NextSequence.  The value NextSequence returns in a write
\* transaction is the sequence of the bucket before the call plus 1, and the
\* tree to commit holds it afterwards; Put and Delete leave the sequence of
\* the bucket as it was before the call; once the commit has published, the
\* sequence every later transaction reads is the value NextSequence returned
\* last in the committed transaction (the sequence found at its begin when
\* it made no call).  The values returned thus only grow.
SequenceCounts == \A w \in Writers : SequenceStep(w)

\* The same for the transactions that hold one handle to the bucket.
OneHandleSequenceCounts ==
    \A w \in Writers : Len(ghost.handles[w]) <= 1 => SequenceStep(w)

\* A sequence was committed, and a later write transaction has read it,
\* taken the next value and put a key, all through its one handle.
OneHandleSequenceWitness ==
    \E w \in Writers :
        /\ wtx[w].state = "open"
        /\ Len(ghost.handles[w]) = 1
        /\ ghost.begun[w].meta.txid > 1
        /\ SequenceAt(live, CursorPath) >= 1
        /\ ghost.seq[w] = SequenceAt(live, CursorPath) + 1
        /\ ghost.last.op = "Put"
        /\ SequenceAt(wtx[w].mgr, CursorPath) = ghost.seq[w]

====
